---- MODULE Spec2Model ----
(***************************************************************************)
(* Blendle Connect: the renderer's per-tool connection state, the main     *)
(* process's connect-tool handler, the callback server and the per-tool    *)
(* login attempts (Gemini, Codex, Claude) as state machines.               *)
(*                                                                         *)
(* Three groups of variables.  The UI group (uiVars) is the renderer and   *)
(* the IPC handlers of the main process; there a login attempt is seen     *)
(* only through what crosses the process boundary (show-success-screen,    *)
(* the settlement).  The login group (loginVars) is one tool's             *)
(* orchestrator in detail: child process, timers, flags, callback servers. *)
(* The handler group (handlerVars) is one connect-tool invocation in the   *)
(* main process, await by await, on a host whose credential locations and  *)
(* main window it reads.                                                   *)
(***************************************************************************)
EXTENDS Naturals, Integers, FiniteSets, Sequences, TLC

VARIABLES
    \* ---- UI group: renderer (RendererApp) and main-process IPC handlers
    toolStates,     \* RendererApp.toolStates: tool -> {connected, inProgress}
    requests,       \* connect-tool invocations: id -> [tool, phase]
    successMsgs,    \* show-success-screen messages on their way to the renderer
    logoutCalls,    \* logout-tool invocations awaited by the renderer
    initAuth,       \* the running checkInitialAuth() calls: position in the loop
    installed,      \* environment: the tool's executable is on PATH
    credential,     \* environment: a credential exists at a candidate location
    lastEvent,      \* how the last event was handled: by connectTool's early
                    \* return, by connectTool's invoke, or by another handler
    \* ---- login group: AuthManager.performLogin for one tool
    tool,           \* the tool this run exercises
    attemptNo,      \* number of performLogin calls started so far
    pc,             \* where the current performLogin call is
    attempt,        \* the attempt's closure flags (resolved, authCompleted),
                    \* the number of resolve()/reject() invocations, the
                    \* state of the promise performLogin returned, the
                    \* handler that settled it, and whether a handler sent
                    \* to the renderer or opened a window after that
    child,          \* the spawned login / expect process
    exitCode,       \* the code its 'close' event carried
    timers,         \* the attempt's armed timers and intervals, by name
    output,         \* markers / phrases received on stdout so far
    windows,        \* OAuthWindow.open() calls still pending
    credOnDisk,     \* environment: credential at the tool's candidate location
    servers,        \* callback servers created: id -> [listening, port,
                    \* signals: 'auth-completed' events it has emitted]
    activeServers,  \* CallbackServer.activeServers.get(tool): a server id or 0
    graceTimers,    \* handleCallback shutdown timers: armed, and closes whose
                    \* callback has not run yet
    portTaken,      \* environment: another program holds the configured port
    mainWindowOpen, \* the main window has not been closed
    \* ---- handler group: one ipcMain.handle('connect-tool') invocation
    host,           \* environment: the tool's executable is on PATH, the
                    \* state of each candidate credential location, and
                    \* whether the tool's directory (~/.codex, ~/.gemini)
                    \* exists
    conn,           \* the invocation: the await it is at, what
                    \* checkAuthenticated returned, the calls it has made in
                    \* order, what extractCredentials produced, its reply
    logoutReply,    \* what the last logout-tool invocation returned
    \* ---- one OAuthWindow
    oauth,          \* its BrowserWindow, its completed flag, the promise
                    \* open() returned, its armed 2 s close timers, the
                    \* loads of the localhost callback URL so far, and the
                    \* last navigation event: the URL's matches and the
                    \* rules that handled it
    \* ---- EnvironmentManager
    procEnv,        \* process.env: variable -> value, and PATH as a list
    spawnEnv,       \* the environment getSpawnEnv() returned, if any
    \* ---- the three tools side by side
    byTool,         \* per tool: the renderer's flags, the tool's entry in
                    \* CallbackServer.activeServers, the ports its servers
                    \* listen on, its child process and timers
    \* ---- the child's stdout, chunk by chunk
    stream          \* what the child still has to write, what the 'data'
                    \* handler has received, and what that did to the attempt

uiVars == <<toolStates, requests, successMsgs, logoutCalls, initAuth,
            installed, credential, lastEvent>>

loginVars == <<tool, attemptNo, pc, attempt, child, exitCode, timers, output,
               windows, credOnDisk, servers, activeServers, graceTimers,
               portTaken, mainWindowOpen>>

handlerVars == <<host, conn, logoutReply>>

envVars == <<procEnv, spawnEnv>>

vars == <<uiVars, loginVars, handlerVars, oauth, envVars, byTool, stream>>

Tools == {"codex", "gemini", "claude"}

\* The two places that call checkInitialAuth(): the constructor's 500 ms timer
\* and the prerequisites-ready handler.
InitAuthCalls == {"timer", "prerequisitesReady"}

\* The order in which checkInitialAuth visits the tools.
ToolOrder == <<"codex", "gemini", "claude">>

\* ---------------------------------------------------------------- bounds
\* connect-tool invocations issued over one run of the UI
MaxConnectCalls == 2
\* show-success-screen messages in flight per tool
MaxSuccessMsgs == 1
\* logout-tool invocations issued over one run of the UI
MaxLogouts == 1

\* ====================================================================
\*                              UI GROUP
\* ====================================================================

ReqIds == 1..MaxConnectCalls

NoRequest == [tool |-> "none", phase |-> "none"]

Issued == {i \in ReqIds : requests[i].phase # "none"}

\* Requests whose main-side handler is inside authManager.performLogin.
LoginsInFlight(t) ==
    {i \in ReqIds : requests[i].tool = t /\ requests[i].phase = "login"}

\* Requests the renderer is still awaiting.
Awaited(t) ==
    {i \in ReqIds : requests[i].tool = t
                    /\ requests[i].phase \notin {"none", "closed"}}

LogoutsIssued == logoutCalls.issued

UIInit ==
    /\ toolStates = [t \in Tools |-> [connected |-> FALSE, inProgress |-> FALSE]]
    /\ requests = [i \in ReqIds |-> NoRequest]
    /\ successMsgs = [t \in Tools |-> 0]
    /\ logoutCalls = [issued |-> 0, pending |-> [t \in Tools |-> "none"]]
    /\ initAuth = [k \in InitAuthCalls |-> [pos |-> 0, step |-> "idle"]]
    \* the tool of this run is in any state; the other two are not installed
    /\ installed \in [Tools -> BOOLEAN]
    /\ credential \in [Tools -> BOOLEAN]
    /\ \A t \in Tools : credential[t] => installed[t]
    /\ \A t \in Tools \ {tool} : ~installed[t]
    /\ lastEvent = "init"

\* ---- RendererApp.connectTool, up to its await.
\* (a guard that forgets the inProgress flag)
ConnectGuardConnectedOnly(t) == toolStates[t].connected

ConnectGuard(t) == toolStates[t].connected \/ toolStates[t].inProgress

ConnectTool(t) ==
    /\ UNCHANGED <<loginVars, handlerVars, oauth, envVars, byTool, stream>>
    /\ IF ConnectGuard(t)
       THEN /\ lastEvent' = "connectTool:return"
            /\ UNCHANGED <<toolStates, requests, successMsgs, logoutCalls,
                           initAuth, installed, credential>>
       ELSE /\ Cardinality(Issued) < MaxConnectCalls
            /\ LET i == Cardinality(Issued) + 1 IN
                 requests' = [requests EXCEPT ![i] =
                                 [tool |-> t, phase |-> "checkInstalled"]]
            /\ toolStates' = [toolStates EXCEPT ![t].inProgress = TRUE]
            /\ lastEvent' = "connectTool:invoke"
            /\ UNCHANGED <<successMsgs, logoutCalls, initAuth, installed, credential>>

\* ---- RendererApp.connectTool, after window.api.connectTool returned.
ConnectReturn(i) ==
    /\ UNCHANGED <<loginVars, handlerVars, oauth, envVars, byTool, stream>>
    /\ LET t == requests[i].tool IN
       /\ requests[i].phase \in {"replyOk", "replyErr"}
       /\ requests' = [requests EXCEPT ![i].phase = "closed"]
       /\ IF requests[i].phase = "replyOk"
          THEN toolStates' = [toolStates EXCEPT ![t] =
                                 [connected |-> TRUE, inProgress |-> FALSE]]
          ELSE toolStates' = [toolStates EXCEPT ![t].inProgress = FALSE]
       /\ lastEvent' = "other"
       /\ UNCHANGED <<successMsgs, logoutCalls, initAuth, installed, credential>>

\* ---- RendererApp.logoutTool, up to its await.  The Disconnect button is
\* shown (and enabled) by updateButtonState(toolId, 'connected').
LogoutTool(t) ==
    /\ UNCHANGED <<loginVars, handlerVars, oauth, envVars, byTool, stream>>
    /\ toolStates[t].connected
    /\ logoutCalls.pending[t] = "none"
    /\ logoutCalls.issued < MaxLogouts
    /\ logoutCalls' = [issued |-> logoutCalls.issued + 1,
                       pending |-> [logoutCalls.pending EXCEPT ![t] = "invoked"]]
    /\ lastEvent' = "other"
    /\ UNCHANGED <<toolStates, requests, successMsgs, initAuth, installed, credential>>

\* ---- AuthManager.logoutTool in the main process: removes the credential
\* directory / keychain entry, or fails.
LogoutHandler(t, ok) ==
    /\ UNCHANGED <<loginVars, handlerVars, oauth, envVars, byTool, stream>>
    /\ logoutCalls.pending[t] = "invoked"
    /\ logoutCalls' = [logoutCalls EXCEPT !.pending[t] =
                          IF ok THEN "replyOk" ELSE "replyErr"]
    /\ credential' = [credential EXCEPT ![t] = IF ok THEN FALSE ELSE @]
    /\ lastEvent' = "other"
    /\ UNCHANGED <<toolStates, requests, successMsgs, initAuth, installed>>

\* ---- RendererApp.logoutTool, after window.api.logoutTool returned.
LogoutReturn(t) ==
    /\ UNCHANGED <<loginVars, handlerVars, oauth, envVars, byTool, stream>>
    /\ logoutCalls.pending[t] \in {"replyOk", "replyErr"}
    /\ logoutCalls' = [logoutCalls EXCEPT !.pending[t] = "none"]
    /\ IF logoutCalls.pending[t] = "replyOk"
       THEN toolStates' = [toolStates EXCEPT ![t].connected = FALSE]
       ELSE UNCHANGED toolStates
    /\ lastEvent' = "other"
    /\ UNCHANGED <<requests, successMsgs, initAuth, installed, credential>>

\* ---- RendererApp.showSuccessScreen, run by onShowSuccessScreen.
ShowSuccessScreen(t) ==
    /\ UNCHANGED <<loginVars, handlerVars, oauth, envVars, byTool, stream>>
    /\ successMsgs[t] > 0
    /\ successMsgs' = [successMsgs EXCEPT ![t] = @ - 1]
    /\ toolStates' = [toolStates EXCEPT ![t] =
                         [connected |-> TRUE, inProgress |-> FALSE]]
    /\ lastEvent' = "other"
    /\ UNCHANGED <<requests, logoutCalls, initAuth, installed, credential>>

\* ---- RendererApp.checkInitialAuth: a loop over the tools with two awaits.
InitAuthStart(k) ==
    /\ UNCHANGED <<loginVars, handlerVars, oauth, envVars, byTool, stream>>
    /\ initAuth[k].pos = 0
    /\ initAuth' = [initAuth EXCEPT ![k] = [pos |-> 1, step |-> "checkTool"]]
    /\ lastEvent' = "other"
    /\ UNCHANGED <<toolStates, requests, successMsgs, logoutCalls, installed, credential>>

InitAuthNext(k) ==
    IF initAuth[k].pos = Len(ToolOrder)
    THEN [pos |-> Len(ToolOrder) + 1, step |-> "done"]
    ELSE [pos |-> initAuth[k].pos + 1, step |-> "checkTool"]

\* window.api.checkTool returned
InitAuthCheckTool(k) ==
    /\ UNCHANGED <<loginVars, handlerVars, oauth, envVars, byTool, stream>>
    /\ initAuth[k].step = "checkTool"
    /\ LET t == ToolOrder[initAuth[k].pos] IN
         /\ initAuth' = [initAuth EXCEPT ![k] =
                            IF installed[t] THEN [@ EXCEPT !.step = "checkAuth"]
                            ELSE InitAuthNext(k)]
         /\ lastEvent' = "other"
    /\ UNCHANGED <<toolStates, requests, successMsgs, logoutCalls, installed, credential>>

\* window.api.checkAuthenticated returned
InitAuthCheckAuthenticated(k) ==
    /\ UNCHANGED <<loginVars, handlerVars, oauth, envVars, byTool, stream>>
    /\ initAuth[k].step = "checkAuth"
    /\ LET t == ToolOrder[initAuth[k].pos] IN
         /\ toolStates' = IF credential[t]
                          THEN [toolStates EXCEPT ![t].connected = TRUE]
                          ELSE toolStates
         /\ lastEvent' = "other"
    /\ initAuth' = [initAuth EXCEPT ![k] = InitAuthNext(k)]
    /\ UNCHANGED <<requests, successMsgs, logoutCalls, installed, credential>>

\* ---- ipcMain.handle('connect-tool'): the handler's awaits, one step each.
\* toolInstaller.checkToolInstalled returned
HandlerCheckInstalled(i) ==
    /\ UNCHANGED <<loginVars, handlerVars, oauth, envVars, byTool, stream>>
    /\ LET t == requests[i].tool IN
       /\ requests[i].phase = "checkInstalled"
       /\ requests' = [requests EXCEPT ![i].phase =
                          IF installed[t] THEN "checkAuth" ELSE "installing"]
       /\ lastEvent' = "other"
       /\ UNCHANGED <<toolStates, successMsgs, logoutCalls, initAuth, installed, credential>>

\* toolInstaller.installTool returned or threw
HandlerInstall(i, ok) ==
    /\ UNCHANGED <<loginVars, handlerVars, oauth, envVars, byTool, stream>>
    /\ LET t == requests[i].tool IN
       /\ requests[i].phase = "installing"
       /\ requests' = [requests EXCEPT ![i].phase =
                          IF ok THEN "checkAuth" ELSE "replyErr"]
       /\ installed' = [installed EXCEPT ![t] = IF ok THEN TRUE ELSE @]
       /\ lastEvent' = "other"
       /\ UNCHANGED <<toolStates, successMsgs, logoutCalls, initAuth, credential>>

\* authManager.checkAuthenticated returned: extraction or performLogin next
HandlerCheckAuthenticated(i) ==
    /\ UNCHANGED <<loginVars, handlerVars, oauth, envVars, byTool, stream>>
    /\ LET t == requests[i].tool IN
       /\ requests[i].phase = "checkAuth"
       /\ requests' = [requests EXCEPT ![i].phase =
                          IF credential[t] THEN "extract" ELSE "login"]
       /\ lastEvent' = "other"
       /\ UNCHANGED <<toolStates, successMsgs, logoutCalls, initAuth, installed, credential>>

\* During performLogin: the attempt sends show-success-screen without having
\* settled (Codex: LOGIN_SUCCESS marker; Gemini, Claude: a callback request).
AttemptShowsSuccess(i) ==
    /\ UNCHANGED <<loginVars, handlerVars, oauth, envVars, byTool, stream>>
    /\ LET t == requests[i].tool IN
       /\ requests[i].phase = "login"
       /\ successMsgs[t] < MaxSuccessMsgs
       /\ successMsgs' = [successMsgs EXCEPT ![t] = @ + 1]
       /\ lastEvent' = "other"
       /\ UNCHANGED <<toolStates, requests, logoutCalls, initAuth, installed, credential>>

\* During performLogin: the CLI writes the credential.
AttemptCredential(i) ==
    /\ UNCHANGED <<loginVars, handlerVars, oauth, envVars, byTool, stream>>
    /\ LET t == requests[i].tool IN
       /\ requests[i].phase = "login"
       /\ ~credential[t]
       /\ credential' = [credential EXCEPT ![t] = TRUE]
       /\ lastEvent' = "other"
       /\ UNCHANGED <<toolStates, requests, successMsgs, logoutCalls, initAuth, installed>>

\* performLogin resolved or rejected
HandlerLoginSettled(i, ok) ==
    /\ UNCHANGED <<loginVars, handlerVars, oauth, envVars, byTool, stream>>
    /\ LET t == requests[i].tool IN
       /\ requests[i].phase = "login"
       /\ requests' = [requests EXCEPT ![i].phase =
                          IF ok THEN "extract" ELSE "replyErr"]
       /\ lastEvent' = "other"
       /\ UNCHANGED <<toolStates, successMsgs, logoutCalls, initAuth, installed, credential>>

\* authManager.extractCredentials returned; the handler returns success
HandlerExtract(i) ==
    /\ UNCHANGED <<loginVars, handlerVars, oauth, envVars, byTool, stream>>
    /\ LET t == requests[i].tool IN
       /\ requests[i].phase = "extract"
       /\ requests' = [requests EXCEPT ![i].phase = "replyOk"]
       /\ lastEvent' = "other"
       /\ UNCHANGED <<toolStates, successMsgs, logoutCalls, initAuth, installed, credential>>

UINext ==
    \/ ConnectTool(tool)
    \/ \E i \in ReqIds : ConnectReturn(i)
    \/ LogoutTool(tool)
    \/ \E ok \in BOOLEAN : LogoutHandler(tool, ok)
    \/ LogoutReturn(tool)
    \/ ShowSuccessScreen(tool)
    \/ \E k \in InitAuthCalls : InitAuthStart(k)
    \/ \E k \in InitAuthCalls : InitAuthCheckTool(k)
    \/ \E k \in InitAuthCalls : InitAuthCheckAuthenticated(k)
    \/ \E i \in ReqIds : HandlerCheckInstalled(i)
    \/ \E i \in ReqIds, ok \in BOOLEAN : HandlerInstall(i, ok)
    \/ \E i \in ReqIds : HandlerCheckAuthenticated(i)
    \/ \E i \in ReqIds : AttemptShowsSuccess(i)
    \/ \E i \in ReqIds : AttemptCredential(i)
    \/ \E i \in ReqIds, ok \in BOOLEAN : HandlerLoginSettled(i, ok)
    \/ \E i \in ReqIds : HandlerExtract(i)

TimerNames == {"timeout", "poll", "successCheck", "closeCheck"}

NoTimers == [n \in TimerNames |-> 0]

NewAttempt == [resolved |-> FALSE, authCompleted |-> FALSE,
               settleCalls |-> 0, outcome |-> "none", by |-> "none",
               late |-> FALSE]

\* What a candidate credential location holds.
LocStates == {"absent", "unparseable", "valid"}

\* What extractCredentials has not produced yet.
NoDescriptor == [outcome |-> "none", status |-> "none", detail |-> "none"]

\* No connect-tool invocation yet.
NoCall == [phase |-> "idle", auth |-> "unknown", ran |-> <<>>, status |-> <<>>,
           installCode |-> "none", login |-> "none", wrote |-> FALSE,
           backend |-> "none", forwarded |-> "none",
           extracted |-> NoDescriptor, reply |-> "none"]

\* No logout-tool invocation has returned yet.
NoReply == [success |-> FALSE, message |-> "none"]

\* The handler group at rest, for the other specifications.
HandlerIdle ==
    /\ host = [installed |-> TRUE, files |-> <<"absent", "absent">>,
               dir |-> FALSE]
    /\ conn = NoCall
    /\ logoutReply = NoReply

\* An OAuthWindow after its constructor; no navigation event yet.
NoNavigation == [url |-> {}, handledAs |-> {}]

NoWindow == [window |-> "none", completed |-> FALSE, promise |-> "none",
             closeTimers |-> 0, handoffs |-> 0, events |-> 0,
             last |-> NoNavigation]

OAuthIdle == oauth = NoWindow

\* EnvironmentManager.UNSET_VARS
UNSET_VARS == {"OPENAI_API_KEY", "ANTHROPIC_API_KEY", "GEMINI_API_KEY",
               "GOOGLE_API_KEY", "GOOGLE_GENAI_USE_VERTEXAI",
               "GOOGLE_GENAI_USE_GCA", "NO_BROWSER", "DEBIAN_FRONTEND", "CI"}

\* The variables of an environment besides PATH; "" stands for 'not set'.
EnvNames == UNSET_VARS \cup {"BROWSER", "TERM", "FORCE_COLOR", "HOME"}

\* No tool has been connected: toolStates as constructed, activeServers
\* empty.
ToolsIdle ==
    byTool = [t \in Tools |->
                [connected |-> FALSE, inProgress |-> FALSE, phase |-> "idle",
                 entry |-> "none", ports |-> {}, child |-> "none",
                 timers |-> FALSE]]

\* No getSpawnEnv() call yet, a process environment nobody reads; no tool
\* has been connected.
EnvAtRest ==
    /\ procEnv = [vars |-> [n \in EnvNames |-> ""], path |-> <<>>]
    /\ spawnEnv = [vars |-> [n \in EnvNames |-> ""], path |-> <<>>,
                   prepared |-> FALSE]

\* No child writes anything.
StreamIdle == stream = [rest |-> <<>>, output |-> <<>>, outcome |-> "pending"]

EnvIdle == ToolsIdle /\ StreamIdle /\ EnvAtRest

\* The login group at rest, for the specification of the UI.
LoginIdle ==
    /\ tool \in Tools
    /\ attemptNo = 0
    /\ pc = "idle"
    /\ attempt = NewAttempt
    /\ child = "none"
    /\ exitCode = "none"
    /\ timers = NoTimers
    /\ output = {}
    /\ windows = 0
    /\ credOnDisk = FALSE
    /\ servers = <<>>
    /\ activeServers = 0
    /\ graceTimers = [armed |-> 0, closing |-> 0]
    /\ portTaken = FALSE
    /\ mainWindowOpen = TRUE

\* The state after construction, as the UI sees it.
InitUI == LoginIdle /\ UIInit /\ HandlerIdle /\ OAuthIdle /\ EnvIdle

SpecUI == InitUI /\ [][UINext]_vars

\* ====================================================================
\*                             LOGIN GROUP
\* ====================================================================
\* One tool's AuthManager over a sequence of performLogin calls.  A call
\* starts when the previous one has settled; the callbacks an earlier attempt
\* left behind act on that attempt's own closure variables only, and are
\* followed until the next attempt starts.  The callback servers outlive the
\* attempts.  ClaudeService is followed on macOS (keychain polling).

\* performLogin calls made over one run
MaxAttempts == 2
\* OAuthWindow.open() calls pending at a time
MaxWindows == 1
\* delayed LOGIN_SUCCESS checks pending at a time
MaxSuccessChecks == 1
\* handleCallback shutdown timers pending at a time
MaxGraceTimers == 2
\* callback requests answered over one run
MaxCallbacks == 2

Rejections == {"rejected:timeout", "rejected:prerequisite", "rejected:script",
               "rejected:spawn", "rejected:failed", "rejected:exit",
               "rejected:send"}

SettledOutcomes == {"resolved"} \cup Rejections

\* resolve() or reject(): one more invocation; the promise keeps the first.
Settle(a, kind, handler) ==
    [a EXCEPT !.settleCalls = @ + 1,
              !.outcome = IF a.outcome = "pending" THEN kind ELSE @,
              !.by = IF a.outcome = "pending" THEN handler ELSE @]

\* (the same without the test of the flag)
SettleUnguarded(a, kind, handler) ==
    Settle([a EXCEPT !.resolved = TRUE], kind, handler)

\* if (!resolved) { resolved = true; resolve() / reject(...) }
SettleOnce(a, kind, handler) ==
    IF a.resolved THEN a
    ELSE Settle([a EXCEPT !.resolved = TRUE], kind, handler)

\* A handler of the attempt logs or notifies the renderer, or opens a window
\* or the browser: remembered when the attempt had settled before it ran.
LateEffect(a) ==
    IF a.outcome \in SettledOutcomes THEN [a EXCEPT !.late = TRUE] ELSE a

\* child.kill(): signals a live process; its 'close' event follows.
Kill(c) == IF c = "running" THEN "killed" ELSE c

\* What authManager.checkAuthenticated(tool) can answer.  Codex: a file at a
\* candidate path.  Claude: the keychain entry, else a probe run of the CLI
\* that answers true on any output.
CheckAuthenticated ==
    IF credOnDisk THEN {TRUE}
    ELSE IF tool = "claude" THEN {TRUE, FALSE} ELSE {FALSE}

\* app.listen(config.port) succeeds iff nothing listens on the tool's port.
ConfiguredPortFree ==
    /\ ~portTaken
    /\ \A s \in DOMAIN servers :
          ~(servers[s].listening /\ servers[s].port = "configured")

Listening == {s \in DOMAIN servers : servers[s].listening}

RECURSIVE SignalsUpTo(_)
\* 'auth-completed' events emitted so far by servers 1..n
SignalsUpTo(n) == IF n = 0 THEN 0 ELSE servers[n].signals + SignalsUpTo(n - 1)

LoginInit ==
    /\ tool \in Tools
    /\ attemptNo = 0
    /\ pc = "idle"
    /\ attempt = NewAttempt
    /\ child = "none"
    /\ exitCode = "none"
    /\ timers = NoTimers
    /\ output = {}
    /\ windows = 0
    /\ credOnDisk \in BOOLEAN
    /\ servers = <<>>
    /\ activeServers = 0
    /\ graceTimers = [armed |-> 0, closing |-> 0]
    /\ portTaken \in BOOLEAN
    /\ mainWindowOpen = TRUE

\* new OAuthWindow(toolId, config.port): the port the embedded window loads
\* its localhost callback URL on, whatever setupCallbackServer resolved with.
CallbackPort == "configured"

\* ---- AuthManager.performLogin, up to its first await.
PerformLogin ==
    /\ mainWindowOpen
    /\ attemptNo < MaxAttempts
    /\ attempt.outcome # "pending"
    /\ attemptNo' = attemptNo + 1
    /\ attempt' = [NewAttempt EXCEPT !.outcome = "pending"]
    /\ child' = "none"
    /\ exitCode' = "none"
    /\ timers' = NoTimers
    /\ output' = {}
    /\ windows' = 0
    /\ pc' = IF tool = "codex" THEN "prepare" ELSE "serverSetup"
    /\ UNCHANGED <<tool, credOnDisk, servers, activeServers, graceTimers,
                   portTaken, mainWindowOpen>>
    /\ UNCHANGED <<uiVars, handlerVars, oauth, envVars, byTool, stream>>

\* ---- CallbackServer.setupCallbackServer: listen on the configured port, or
\* on an OS-assigned one when that is in use; register the server.
SetupCallbackServer ==
    /\ pc = "serverSetup"
    /\ servers' = Append(servers,
                         [listening |-> TRUE,
                          port |-> IF ConfiguredPortFree THEN "configured"
                                   ELSE "ephemeral",
                          signals |-> 0])
    /\ activeServers' = Len(servers) + 1
    /\ pc' = "prepare"
    /\ UNCHANGED <<tool, attemptNo, attempt, child, exitCode, timers, output,
                   windows, credOnDisk, graceTimers, portTaken, mainWindowOpen>>
    /\ UNCHANGED <<uiVars, handlerVars, oauth, envVars, byTool, stream>>

\* ---- handleCallback: a GET on an accepted path of listening server s.
\* The page is sent, the renderer is notified and the shutdown timer is set;
\* with the main window gone webContents.send throws before the timer is set.
HandleCallback(s) ==
    /\ s \in Listening
    /\ IF mainWindowOpen
       THEN /\ graceTimers.armed < MaxGraceTimers
            /\ SignalsUpTo(Len(servers)) < MaxCallbacks
            /\ graceTimers' = [graceTimers EXCEPT !.armed = @ + 1]
            /\ servers' = [servers EXCEPT ![s].signals = @ + 1]
       ELSE UNCHANGED <<graceTimers, servers>>
    /\ UNCHANGED <<tool, attemptNo, pc, attempt, child, exitCode, timers, output,
                   windows, credOnDisk, activeServers, portTaken, mainWindowOpen>>
    /\ UNCHANGED <<uiVars, handlerVars, oauth, envVars, byTool, stream>>

\* ---- the shutdown timer of handleCallback fires: close whatever server the
\* map holds for the tool now.
GraceTimerFires ==
    /\ graceTimers.armed > 0
    /\ IF activeServers # 0
       THEN /\ graceTimers.closing < MaxGraceTimers
            /\ servers' = [servers EXCEPT ![activeServers].listening = FALSE]
            /\ graceTimers' = [armed |-> graceTimers.armed - 1,
                               closing |-> graceTimers.closing + 1]
       ELSE /\ graceTimers' = [graceTimers EXCEPT !.armed = @ - 1]
            /\ UNCHANGED servers
    /\ UNCHANGED <<tool, attemptNo, pc, attempt, child, exitCode, timers, output,
                   windows, credOnDisk, activeServers, portTaken, mainWindowOpen>>
    /\ UNCHANGED <<uiVars, handlerVars, oauth, envVars, byTool, stream>>

\* ---- the callback of server.close(): activeServers.delete(toolId).
ServerCloseCallback ==
    /\ graceTimers.closing > 0
    /\ graceTimers' = [graceTimers EXCEPT !.closing = @ - 1]
    /\ activeServers' = 0
    /\ UNCHANGED <<tool, attemptNo, pc, attempt, child, exitCode, timers, output,
                   windows, credOnDisk, servers, portTaken, mainWindowOpen>>
    /\ UNCHANGED <<uiVars, handlerVars, oauth, envVars, byTool, stream>>

\* ---- mainWindow.on('closed'): closeCallbackServers() -> closeAll().
MainWindowClosed ==
    /\ mainWindowOpen
    /\ mainWindowOpen' = FALSE
    /\ servers' = IF activeServers # 0
                  THEN [servers EXCEPT ![activeServers].listening = FALSE]
                  ELSE servers
    /\ activeServers' = 0
    /\ UNCHANGED <<tool, attemptNo, pc, attempt, child, exitCode, timers, output,
                   windows, credOnDisk, graceTimers, portTaken>>
    /\ UNCHANGED <<uiVars, handlerVars, oauth, envVars, byTool, stream>>

\* ---- environment: the CLI writes the credential while it runs.
CredentialWritten ==
    /\ child = "running"
    /\ ~credOnDisk
    /\ credOnDisk' = TRUE
    /\ UNCHANGED <<tool, attemptNo, pc, attempt, child, exitCode, timers, output,
                   windows, servers, activeServers, graceTimers, portTaken,
                   mainWindowOpen>>
    /\ UNCHANGED <<uiVars, handlerVars, oauth, envVars, byTool, stream>>

\* The variables of the callback server and of the main window.
serverState == <<servers, activeServers, graceTimers, portTaken, mainWindowOpen>>

\* What 'close' carries: a live child exits with 0 or not, a signalled one
\* closes with code null, one that failed to spawn with an error number.
ExitCodes(c) ==
    IF c = "running" THEN {"0", "1"}
    ELSE IF c = "killed" THEN {"signal"} ELSE {"1"}

\* --------------------------------------------------------------------
\* AuthManager.performGeminiLogin
\* --------------------------------------------------------------------
\* What a chunk of Gemini output can hold: a URL, a success phrase of
\* checkForAuthSuccess, a denial / failure phrase (matched by no pattern).
GeminiMarkers == {"url", "success", "denied"}

\* (the same without the resolve: the notification only)
GeminiNotifyOnly(a, handler) == [a EXCEPT !.authCompleted = TRUE]

\* The onAuthComplete closure: the success notification is sent once; with the
\* main window gone that send throws after authCompleted was set.
GeminiOnAuthComplete(a, handler) ==
    IF ~a.authCompleted
    THEN IF mainWindowOpen
         THEN SettleOnce([LateEffect(a) EXCEPT !.authCompleted = TRUE],
                         "resolved", handler)
         ELSE [a EXCEPT !.authCompleted = TRUE]
    ELSE SettleOnce(a, "resolved", handler)

\* ---- clear the credentials, spawn `gemini`, arm credPoll and loginTimeout.
\* A failed spawn raises 'error', for which there is no listener.
GeminiSpawn(ok) ==
    /\ tool = "gemini"
    /\ pc = "prepare"
    /\ credOnDisk' = FALSE
    /\ child' = IF ok THEN "running" ELSE "spawnError"
    /\ timers' = [timers EXCEPT !["poll"] = 1, !["timeout"] = 1]
    /\ pc' = "spawned"
    /\ UNCHANGED <<tool, attemptNo, attempt, exitCode, output, windows, serverState>>
    /\ UNCHANGED <<uiVars, handlerVars, oauth, envVars, byTool, stream>>

\* ---- a tick of credPoll (500 ms).
GeminiCredPoll ==
    /\ tool = "gemini"
    /\ timers["poll"] = 1
    /\ IF credOnDisk
       THEN /\ timers' = [timers EXCEPT !["poll"] = 0]
            /\ attempt' = IF mainWindowOpen
                          THEN SettleOnce([LateEffect(attempt)
                                             EXCEPT !.authCompleted = TRUE],
                                          "resolved", "poll")
                          ELSE attempt
       ELSE UNCHANGED <<timers, attempt>>
    /\ UNCHANGED <<tool, attemptNo, pc, child, exitCode, output, windows,
                   credOnDisk, serverState>>
    /\ UNCHANGED <<uiVars, handlerVars, oauth, envVars, byTool, stream>>

\* ---- loginTimeout fires (2 min).
GeminiLoginTimeout ==
    /\ tool = "gemini"
    /\ timers["timeout"] = 1
    /\ IF attempt.resolved
       THEN /\ timers' = [timers EXCEPT !["timeout"] = 0]
            /\ UNCHANGED <<child, attempt>>
       ELSE /\ timers' = [timers EXCEPT !["timeout"] = 0, !["poll"] = 0]
            /\ child' = Kill(child)
            /\ attempt' = SettleOnce(attempt, "rejected:timeout", "timeout")
    /\ UNCHANGED <<tool, attemptNo, pc, exitCode, output, windows, credOnDisk,
                   serverState>>
    /\ UNCHANGED <<uiVars, handlerVars, oauth, envVars, byTool, stream>>

\* ---- handleOutput: a chunk on stdout holding a URL, a success phrase that
\* is not one of the logged patterns, a denial phrase, or several of them.
GeminiStdout(chunk) ==
    /\ tool = "gemini"
    /\ child = "running"
    /\ chunk # {}
    /\ output' = output \cup chunk
    /\ IF "url" \in chunk
       THEN IF mainWindowOpen
            THEN /\ windows < MaxWindows
                 /\ windows' = windows + 1
                 /\ attempt' = IF "success" \in chunk
                               THEN GeminiOnAuthComplete(LateEffect(attempt), "stdout")
                               ELSE LateEffect(attempt)
            ELSE UNCHANGED <<windows, attempt>>
       ELSE /\ attempt' = IF "success" \in chunk
                          THEN GeminiOnAuthComplete(attempt, "stdout")
                          ELSE attempt
            /\ UNCHANGED windows
    /\ UNCHANGED <<tool, attemptNo, pc, child, exitCode, timers, credOnDisk,
                   serverState>>
    /\ UNCHANGED <<uiVars, handlerVars, oauth, envVars, byTool, stream>>

\* ---- oauthWindow.open(authUrl) resolved, by the timer that follows a
\* success redirect ("redirect") or by the window's 'closed' event.
GeminiWindowDone(how) ==
    /\ tool = "gemini"
    /\ windows > 0
    /\ windows' = windows - 1
    /\ attempt' = GeminiOnAuthComplete(attempt,
                                       IF how = "redirect" THEN "window"
                                       ELSE "windowClosed")
    /\ UNCHANGED <<tool, attemptNo, pc, child, exitCode, timers, output,
                   credOnDisk, serverState>>
    /\ UNCHANGED <<uiVars, handlerVars, oauth, envVars, byTool, stream>>

\* ---- oauthWindow.open(authUrl) rejected: fall back to the default browser.
GeminiWindowFailed ==
    /\ tool = "gemini"
    /\ windows > 0
    /\ windows' = windows - 1
    /\ attempt' = LateEffect(attempt)
    /\ UNCHANGED <<tool, attemptNo, pc, child, exitCode, timers, output,
                   credOnDisk, serverState>>
    /\ UNCHANGED <<uiVars, handlerVars, oauth, envVars, byTool, stream>>

\* ---- login.on('close').
GeminiClose(code) ==
    /\ tool = "gemini"
    /\ child \in {"running", "killed"}
    /\ code \in ExitCodes(child)
    /\ child' = "closed"
    /\ exitCode' = code
    /\ timers' = [timers EXCEPT !["timeout"] = 0, !["poll"] = 0]
    /\ attempt' = SettleOnce(attempt,
                             IF code = "0" \/ attempt.authCompleted
                             THEN "resolved" ELSE "rejected:exit",
                             "close")
    /\ UNCHANGED <<tool, attemptNo, pc, output, windows, credOnDisk, serverState>>
    /\ UNCHANGED <<uiVars, handlerVars, oauth, envVars, byTool, stream>>

\* --------------------------------------------------------------------
\* AuthManager.performCodexLogin
\* --------------------------------------------------------------------
ExpectMarkers == {"AUTH_URL", "LOGIN_SUCCESS", "LOGIN_FAILED"}

\* logoutCodex() ends by the 'close' or by the 'error' event of `codex logout`.
LogoutEvents == {"close", "error"}

\* `codex logout` removes auth.json; config.toml, the other candidate, stays.
AfterCodexLogout(how) == IF how = "close" THEN {FALSE, credOnDisk} ELSE {credOnDisk}

\* ---- logoutCodex(): the 'close' handler logs to the renderer before it
\* resolves; with the main window gone the send throws and the await never
\* returns.
CodexLogoutHangs ==
    /\ tool = "codex"
    /\ pc = "prepare"
    /\ ~mainWindowOpen
    /\ pc' = "hung"
    /\ credOnDisk' \in AfterCodexLogout("close")
    /\ UNCHANGED <<tool, attemptNo, attempt, child, exitCode, timers, output,
                   windows, serverState>>
    /\ UNCHANGED <<uiVars, handlerVars, oauth, envVars, byTool, stream>>

\* ---- the executor up to an early reject: expect is not installed
\* ("prerequisite", logged to the renderer first), or the script is missing or
\* cannot be copied ("script").
CodexPrepareFails(how, kind) ==
    /\ tool = "codex"
    /\ pc = "prepare"
    /\ how = "close" => mainWindowOpen
    /\ credOnDisk' \in AfterCodexLogout(how)
    /\ IF kind = "prerequisite" /\ ~mainWindowOpen
       THEN /\ pc' = "hung"
            /\ UNCHANGED attempt
       ELSE /\ pc' = "done"
            /\ attempt' = Settle(attempt,
                                 IF kind = "prerequisite"
                                 THEN "rejected:prerequisite" ELSE "rejected:script",
                                 "prepare")
    /\ UNCHANGED <<tool, attemptNo, child, exitCode, timers, output, windows,
                   serverState>>
    /\ UNCHANGED <<uiVars, handlerVars, oauth, envVars, byTool, stream>>

\* ---- the executor through spawn('expect'): handlers registered, configCheck
\* and the 10 min timeout armed.
CodexSpawn(how, ok) ==
    /\ tool = "codex"
    /\ pc = "prepare"
    /\ how = "close" => mainWindowOpen
    /\ credOnDisk' \in AfterCodexLogout(how)
    /\ child' = IF ok THEN "running" ELSE "spawnError"
    /\ timers' = [timers EXCEPT !["poll"] = 1, !["timeout"] = 1]
    /\ pc' = "spawned"
    /\ UNCHANGED <<tool, attemptNo, attempt, exitCode, output, windows, serverState>>
    /\ UNCHANGED <<uiVars, handlerVars, oauth, envVars, byTool, stream>>

\* ---- expectProcess.stdout 'data': every marker is logged to the renderer
\* before it is acted on, so with the main window gone the handler throws
\* at the first marker.
CodexStdout(chunk) ==
    /\ tool = "codex"
    /\ child = "running"
    /\ chunk # {}
    /\ output' = output \cup chunk
    /\ IF mainWindowOpen
       THEN /\ IF "LOGIN_SUCCESS" \in chunk
               THEN /\ timers["successCheck"] < MaxSuccessChecks
                    /\ timers' = [timers EXCEPT !["successCheck"] = @ + 1]
               ELSE UNCHANGED timers
            /\ attempt' = IF "LOGIN_FAILED" \in chunk
                          THEN SettleOnce(LateEffect(attempt), "rejected:failed", "stdout")
                          ELSE LateEffect(attempt)
       ELSE UNCHANGED <<timers, attempt>>
    /\ UNCHANGED <<tool, attemptNo, pc, child, exitCode, windows, credOnDisk,
                   serverState>>
    /\ UNCHANGED <<uiVars, handlerVars, oauth, envVars, byTool, stream>>

\* ---- 2 s after LOGIN_SUCCESS: checkAuthenticated, resolve if it says yes.
CodexSuccessCheck(isAuth) ==
    /\ tool = "codex"
    /\ timers["successCheck"] > 0
    /\ isAuth \in CheckAuthenticated
    /\ timers' = [timers EXCEPT !["successCheck"] = @ - 1]
    /\ attempt' = IF isAuth THEN SettleOnce(attempt, "resolved", "successCheck")
                  ELSE attempt
    /\ UNCHANGED <<tool, attemptNo, pc, child, exitCode, output, windows,
                   credOnDisk, serverState>>
    /\ UNCHANGED <<uiVars, handlerVars, oauth, envVars, byTool, stream>>

\* ---- expectProcess.on('error').
CodexError ==
    /\ tool = "codex"
    /\ child = "spawnError"
    /\ child' = "errored"
    /\ attempt' = SettleOnce(attempt, "rejected:spawn", "error")
    /\ UNCHANGED <<tool, attemptNo, pc, exitCode, timers, output, windows,
                   credOnDisk, serverState>>
    /\ UNCHANGED <<uiVars, handlerVars, oauth, envVars, byTool, stream>>

\* ---- a tick of configCheck (3 s).
CodexConfigCheck ==
    /\ tool = "codex"
    /\ child # "spawnError"   \* the 'error' event precedes every timer
    /\ timers["poll"] = 1
    /\ IF credOnDisk /\ ~attempt.resolved
       THEN /\ timers' = [timers EXCEPT !["poll"] = 0]
            /\ attempt' = SettleOnce(attempt, "resolved", "poll")
       ELSE UNCHANGED <<timers, attempt>>
    /\ UNCHANGED <<tool, attemptNo, pc, child, exitCode, output, windows,
                   credOnDisk, serverState>>
    /\ UNCHANGED <<uiVars, handlerVars, oauth, envVars, byTool, stream>>

\* ---- expectProcess.on('close').
CodexClose(code) ==
    /\ tool = "codex"
    /\ child \in {"running", "killed", "errored"}
    /\ code \in ExitCodes(child)
    /\ child' = "closed"
    /\ exitCode' = code
    /\ timers' = [timers EXCEPT !["poll"] = 0,
                                !["closeCheck"] = IF attempt.resolved THEN @ ELSE 1]
    /\ UNCHANGED <<tool, attemptNo, pc, attempt, output, windows, credOnDisk,
                   serverState>>
    /\ UNCHANGED <<uiVars, handlerVars, oauth, envVars, byTool, stream>>

\* ---- 1 s after 'close': the last checkAuthenticated.
CodexCloseCheck(isAuth) ==
    /\ tool = "codex"
    /\ timers["closeCheck"] = 1
    /\ isAuth \in CheckAuthenticated
    /\ timers' = [timers EXCEPT !["closeCheck"] = 0]
    /\ attempt' = SettleOnce(attempt,
                             IF isAuth \/ exitCode = "0"
                             THEN "resolved" ELSE "rejected:exit",
                             "closeCheck")
    /\ UNCHANGED <<tool, attemptNo, pc, child, exitCode, output, windows,
                   credOnDisk, serverState>>
    /\ UNCHANGED <<uiVars, handlerVars, oauth, envVars, byTool, stream>>

\* ---- the 10 min timeout fires.
CodexTimeout ==
    /\ tool = "codex"
    /\ child # "spawnError"   \* the 'error' event precedes every timer
    /\ timers["timeout"] = 1
    /\ timers' = [timers EXCEPT !["timeout"] = 0, !["poll"] = 0]
    /\ IF attempt.resolved
       THEN UNCHANGED <<child, attempt>>
       ELSE /\ child' = Kill(child)
            /\ attempt' = SettleOnce(attempt, "rejected:timeout", "timeout")
    /\ UNCHANGED <<tool, attemptNo, pc, exitCode, output, windows, credOnDisk,
                   serverState>>
    /\ UNCHANGED <<uiVars, handlerVars, oauth, envVars, byTool, stream>>

\* --------------------------------------------------------------------
\* ClaudeService.performAutoLogin (through AuthManager.performClaudeLogin)
\* --------------------------------------------------------------------
\* ---- onLog at the entry of performAutoLogin throws when the main window is
\* gone: the async function rejects before the promise is constructed.
ClaudeEntryThrows ==
    /\ tool = "claude"
    /\ pc = "prepare"
    /\ ~mainWindowOpen
    /\ pc' = "done"
    /\ attempt' = [attempt EXCEPT !.outcome = "rejected:send", !.by = "entry"]
    /\ UNCHANGED <<tool, attemptNo, child, exitCode, timers, output, windows,
                   credOnDisk, serverState>>
    /\ UNCHANGED <<uiVars, handlerVars, oauth, envVars, byTool, stream>>

\* ---- the executor up to its early reject: expect is not installed.
ClaudePrepareFails ==
    /\ tool = "claude"
    /\ pc = "prepare"
    /\ mainWindowOpen
    /\ pc' = "done"
    /\ attempt' = Settle(attempt, "rejected:prerequisite", "prepare")
    /\ UNCHANGED <<tool, attemptNo, child, exitCode, timers, output, windows,
                   credOnDisk, serverState>>
    /\ UNCHANGED <<uiVars, handlerVars, oauth, envVars, byTool, stream>>

\* ---- mkdirSync or writeFileSync of the script throws inside the async
\* executor: its promise rejects unobserved, neither resolve nor reject is
\* called, and no timer has been armed yet.
ClaudePrepareThrows ==
    /\ tool = "claude"
    /\ pc = "prepare"
    /\ mainWindowOpen
    /\ pc' = "hung"
    /\ UNCHANGED <<tool, attemptNo, attempt, child, exitCode, timers, output,
                   windows, credOnDisk, serverState>>
    /\ UNCHANGED <<uiVars, handlerVars, oauth, envVars, byTool, stream>>

\* ---- the executor through spawn('expect'): keychain entry deleted, handlers
\* registered, configCheck and the 60 s timeout armed.
ClaudeSpawn(ok) ==
    /\ tool = "claude"
    /\ pc = "prepare"
    /\ mainWindowOpen
    /\ credOnDisk' = FALSE
    /\ child' = IF ok THEN "running" ELSE "spawnError"
    /\ timers' = [timers EXCEPT !["poll"] = 1, !["timeout"] = 1]
    /\ pc' = "spawned"
    /\ UNCHANGED <<tool, attemptNo, attempt, exitCode, output, windows, serverState>>
    /\ UNCHANGED <<uiVars, handlerVars, oauth, envVars, byTool, stream>>

\* ---- expectProcess.stdout 'data': every marker is logged through onLog
\* before it is acted on.
ClaudeStdout(chunk) ==
    /\ tool = "claude"
    /\ child = "running"
    /\ chunk # {}
    /\ output' = output \cup chunk
    /\ IF mainWindowOpen
       THEN /\ IF "AUTH_URL" \in chunk
               THEN /\ windows < MaxWindows
                    /\ windows' = windows + 1
               ELSE UNCHANGED windows
            /\ IF "LOGIN_SUCCESS" \in chunk
               THEN /\ timers["successCheck"] < MaxSuccessChecks
                    /\ timers' = [timers EXCEPT !["successCheck"] = @ + 1]
               ELSE UNCHANGED timers
            /\ attempt' = IF "LOGIN_FAILED" \in chunk
                          THEN SettleOnce(LateEffect(attempt), "rejected:failed", "stdout")
                          ELSE LateEffect(attempt)
       ELSE UNCHANGED <<windows, timers, attempt>>
    /\ UNCHANGED <<tool, attemptNo, pc, child, exitCode, credOnDisk, serverState>>
    /\ UNCHANGED <<uiVars, handlerVars, oauth, envVars, byTool, stream>>

\* ---- oauthWindow.open(authUrl) resolved: onAuthComplete(), then resolve.
ClaudeWindowDone(how) ==
    /\ tool = "claude"
    /\ windows > 0
    /\ windows' = windows - 1
    /\ attempt' = IF mainWindowOpen
                  THEN SettleOnce(LateEffect(attempt), "resolved",
                                  IF how = "redirect" THEN "window"
                                  ELSE "windowClosed")
                  ELSE attempt
    /\ UNCHANGED <<tool, attemptNo, pc, child, exitCode, timers, output,
                   credOnDisk, serverState>>
    /\ UNCHANGED <<uiVars, handlerVars, oauth, envVars, byTool, stream>>

\* ---- oauthWindow.open(authUrl) rejected: fall back to the default browser.
ClaudeWindowFailed ==
    /\ tool = "claude"
    /\ windows > 0
    /\ windows' = windows - 1
    /\ attempt' = LateEffect(attempt)
    /\ UNCHANGED <<tool, attemptNo, pc, child, exitCode, timers, output,
                   credOnDisk, serverState>>
    /\ UNCHANGED <<uiVars, handlerVars, oauth, envVars, byTool, stream>>

\* ---- 2 s after LOGIN_SUCCESS: checkAuthenticated; if it says yes,
\* onAuthComplete() and resolve.
ClaudeSuccessCheck(isAuth) ==
    /\ tool = "claude"
    /\ timers["successCheck"] > 0
    /\ isAuth \in CheckAuthenticated
    /\ timers' = [timers EXCEPT !["successCheck"] = @ - 1]
    /\ attempt' = IF isAuth /\ mainWindowOpen
                  THEN SettleOnce(LateEffect(attempt), "resolved", "successCheck")
                  ELSE attempt
    /\ UNCHANGED <<tool, attemptNo, pc, child, exitCode, output, windows,
                   credOnDisk, serverState>>
    /\ UNCHANGED <<uiVars, handlerVars, oauth, envVars, byTool, stream>>

\* ---- expectProcess.on('error').
ClaudeError ==
    /\ tool = "claude"
    /\ child = "spawnError"
    /\ child' = "errored"
    /\ attempt' = SettleOnce(attempt, "rejected:spawn", "error")
    /\ UNCHANGED <<tool, attemptNo, pc, exitCode, timers, output, windows,
                   credOnDisk, serverState>>
    /\ UNCHANGED <<uiVars, handlerVars, oauth, envVars, byTool, stream>>

\* ---- a tick of configCheck (1 s): the keychain entry.  onAuthComplete()
\* runs after clearInterval and before resolved is set.
ClaudeConfigCheck ==
    /\ tool = "claude"
    /\ child # "spawnError"   \* the 'error' event precedes every timer
    /\ timers["poll"] = 1
    /\ IF credOnDisk /\ ~attempt.resolved
       THEN /\ timers' = [timers EXCEPT !["poll"] = 0]
            /\ attempt' = IF mainWindowOpen
                          THEN SettleOnce(attempt, "resolved", "poll")
                          ELSE attempt
       ELSE UNCHANGED <<timers, attempt>>
    /\ UNCHANGED <<tool, attemptNo, pc, child, exitCode, output, windows,
                   credOnDisk, serverState>>
    /\ UNCHANGED <<uiVars, handlerVars, oauth, envVars, byTool, stream>>

\* ---- expectProcess.on('close').
ClaudeClose(code) ==
    /\ tool = "claude"
    /\ child \in {"running", "killed", "errored"}
    /\ code \in ExitCodes(child)
    /\ child' = "closed"
    /\ exitCode' = code
    /\ timers' = [timers EXCEPT !["poll"] = 0,
                                !["closeCheck"] = IF attempt.resolved THEN @ ELSE 1]
    /\ UNCHANGED <<tool, attemptNo, pc, attempt, output, windows, credOnDisk,
                   serverState>>
    /\ UNCHANGED <<uiVars, handlerVars, oauth, envVars, byTool, stream>>

\* ---- 1 s after 'close': the last checkAuthenticated.  resolved is set
\* before onAuthComplete() runs.
ClaudeCloseCheck(isAuth) ==
    /\ tool = "claude"
    /\ timers["closeCheck"] = 1
    /\ isAuth \in CheckAuthenticated
    /\ timers' = [timers EXCEPT !["closeCheck"] = 0]
    /\ attempt' = IF isAuth /\ ~mainWindowOpen /\ ~attempt.resolved
                  THEN [attempt EXCEPT !.resolved = TRUE]
                  ELSE SettleOnce(attempt,
                                  IF isAuth \/ exitCode = "0"
                                  THEN "resolved" ELSE "rejected:exit",
                                  "closeCheck")
    /\ UNCHANGED <<tool, attemptNo, pc, child, exitCode, output, windows,
                   credOnDisk, serverState>>
    /\ UNCHANGED <<uiVars, handlerVars, oauth, envVars, byTool, stream>>

\* ---- the 60 s timeout fires.
ClaudeTimeout ==
    /\ tool = "claude"
    /\ child # "spawnError"   \* the 'error' event precedes every timer
    /\ timers["timeout"] = 1
    /\ timers' = [timers EXCEPT !["timeout"] = 0, !["poll"] = 0]
    /\ IF attempt.resolved
       THEN UNCHANGED <<child, attempt>>
       ELSE /\ child' = Kill(child)
            /\ attempt' = SettleOnce(attempt, "rejected:timeout", "timeout")
    /\ UNCHANGED <<tool, attemptNo, pc, exitCode, output, windows, credOnDisk,
                   serverState>>
    /\ UNCHANGED <<uiVars, handlerVars, oauth, envVars, byTool, stream>>

\* The UI group at rest, for the specification of the login attempts.
UIIdle ==
    /\ toolStates = [t \in Tools |-> [connected |-> FALSE, inProgress |-> FALSE]]
    /\ requests = [i \in ReqIds |-> NoRequest]
    /\ successMsgs = [t \in Tools |-> 0]
    /\ logoutCalls = [issued |-> 0, pending |-> [t \in Tools |-> "none"]]
    /\ initAuth = [k \in InitAuthCalls |-> [pos |-> 0, step |-> "idle"]]
    /\ installed = [t \in Tools |-> t = tool]
    /\ credential = [t \in Tools |-> FALSE]
    /\ lastEvent = "init"

LoginNext ==
    \/ PerformLogin
    \/ SetupCallbackServer
    \/ MainWindowClosed
    \/ CredentialWritten
    \/ \E ok \in BOOLEAN : GeminiSpawn(ok)
    \/ GeminiCredPoll
    \/ GeminiLoginTimeout
    \/ \E chunk \in SUBSET GeminiMarkers : GeminiStdout(chunk)
    \/ \E how \in {"redirect", "closed"} : GeminiWindowDone(how)
    \/ GeminiWindowFailed
    \/ \E code \in {"0", "1", "signal"} : GeminiClose(code)
    \/ CodexLogoutHangs
    \/ \E how \in LogoutEvents, kind \in {"prerequisite", "script"} :
          CodexPrepareFails(how, kind)
    \/ \E how \in LogoutEvents, ok \in BOOLEAN : CodexSpawn(how, ok)
    \/ \E chunk \in SUBSET ExpectMarkers : CodexStdout(chunk)
    \/ \E isAuth \in BOOLEAN : CodexSuccessCheck(isAuth)
    \/ CodexError
    \/ CodexConfigCheck
    \/ \E code \in {"0", "1", "signal"} : CodexClose(code)
    \/ \E isAuth \in BOOLEAN : CodexCloseCheck(isAuth)
    \/ CodexTimeout
    \/ ClaudeEntryThrows
    \/ ClaudePrepareFails
    \/ ClaudePrepareThrows
    \/ \E ok \in BOOLEAN : ClaudeSpawn(ok)
    \/ \E chunk \in SUBSET ExpectMarkers : ClaudeStdout(chunk)
    \/ \E how \in {"redirect", "closed"} : ClaudeWindowDone(how)
    \/ ClaudeWindowFailed
    \/ \E isAuth \in BOOLEAN : ClaudeSuccessCheck(isAuth)
    \/ ClaudeError
    \/ ClaudeConfigCheck
    \/ \E code \in {"0", "1", "signal"} : ClaudeClose(code)
    \/ \E isAuth \in BOOLEAN : ClaudeCloseCheck(isAuth)
    \/ ClaudeTimeout

\* The state after construction, before the first performLogin.
InitLogin == LoginInit /\ UIIdle /\ HandlerIdle /\ OAuthIdle /\ EnvIdle

SpecLogin == InitLogin /\ [][LoginNext]_vars

\* ====================================================================
\*                     THE CALLBACK SERVER IN DETAIL
\* ====================================================================
\* SpecLogin follows the attempts handler by handler, with callback servers
\* that receive no request.  SpecServer follows the requests and the shutdown
\* timers of the servers, and sees of an attempt only that the login
\* function awaited by performLogin ends.

\* ---- performLogin's await of performGeminiLogin / performClaudeLogin /
\* performCodexLogin returns or throws.
LoginEnds(kind) ==
    /\ pc = "prepare"
    /\ attempt.outcome = "pending"
    /\ pc' = "done"
    /\ attempt' = [attempt EXCEPT !.resolved = TRUE, !.settleCalls = 1,
                                  !.outcome = kind, !.by = "login"]
    /\ UNCHANGED <<tool, attemptNo, child, exitCode, timers, output, windows,
                   credOnDisk, serverState>>
    /\ UNCHANGED <<uiVars, handlerVars, oauth, envVars, byTool, stream>>

ServerNext ==
    \/ PerformLogin
    \/ SetupCallbackServer
    \/ \E s \in 1..MaxAttempts : HandleCallback(s)
    \/ GraceTimerFires
    \/ ServerCloseCallback
    \/ MainWindowClosed
    \/ \E kind \in SettledOutcomes : LoginEnds(kind)

SpecServer == InitLogin /\ [][ServerNext]_vars

\* ====================================================================
\*                            HANDLER GROUP
\* ====================================================================
\* One invocation of ipcMain.handle('connect-tool') for the tool of the run.
\* After the main window has closed, mainWindow, toolInstaller and
\* authManager are null and the BrowserWindow the services hold is
\* destroyed: a statement that sends to the window, or calls a service
\* through the null reference, throws there.

\* The tool's candidate locations: auth.json and config.toml for Codex,
\* oauth_creds.json for Gemini, the keychain item or .claude.json for Claude.
Candidates(t) == IF t = "codex" THEN {1, 2} ELSE {1}

Readable(f) == f # "absent"

\* ---- AuthManager.checkAuthenticated: the values it can return.
IsAuthenticated(t, files) ==
    IF t = "codex" THEN {Readable(files[1]) \/ Readable(files[2])}
    ELSE IF t = "gemini" THEN {Readable(files[1])}
    ELSE IF Readable(files[1]) THEN {TRUE}
    \* no stored credential: whether the bare `claude` prints within 2 s
    ELSE BOOLEAN

\* (a descriptor that lacks the status field)
DescriptorNoStatus(detail) ==
    [outcome |-> "returned", status |-> "none", detail |-> detail]

Descriptor(detail) ==
    [outcome |-> "returned", status |-> "authenticated", detail |-> detail]

Rejected == [outcome |-> "rejected", status |-> "none", detail |-> "none"]

\* ---- ClaudeService.extractCredentials: a stored item gives a descriptor
\* whether or not it parses; none gives 'verification skipped'.
ClaudeExtract(files) ==
    IF Readable(files[1]) THEN Descriptor("full") ELSE Descriptor("degraded")

\* What the remote token store does with a request.
Backends == {"stored", "errorResponse", "networkError", "timeout"}

\* (a storeCredentialsToBackend that lets a failed call escape)
StoreToBackendRethrows(open, backend) ==
    IF open /\ backend = "stored" THEN "returned" ELSE "threw"

\* ---- AuthManager.storeCredentialsToBackend: ApiClient.storeToken turns
\* every failure into {success: false}; either result is only logged with
\* sendLog, which throws (in the try and again in the catch) without window.
StoreCredentialsToBackend(open, backend) ==
    LET result == [success |-> backend = "stored"]
    IN IF ~open THEN "threw"
       ELSE IF result.success THEN "returned" ELSE "returned"

\* ---- the tokenData storeCredentialsToBackend forwards: the stringified
\* descriptor (Claude: with apiKey when the stored JSON has one; Codex: all
\* fields of auth.json), the raw config.toml, or Gemini's oauth object whose
\* tokens and client secret are replaced by '***'.
TokenData(t, files) ==
    IF t = "claude"
    THEN IF files[1] = "valid" THEN "secret" ELSE "metadata"
    ELSE IF t = "codex"
    THEN IF files[1] = "valid" \/ files[2] = "valid" THEN "secret"
         ELSE IF Readable(files[2]) THEN "metadata" ELSE "none"
    ELSE "redacted"

\* ---- AuthManager.extractCredentials(t) with the window open or closed.
\* Claude: storeCredentials sends to the window after the service returned.
\* Codex: per location, a read or parse failure, and a throwing sendLog,
\* are swallowed by the loop's catch; after the loop the default descriptor.
\* Gemini: sendLog runs in the try and in the catch, then storeCredentials.
\* Each found credential (Claude, Gemini: each descriptor) then goes to
\* storeCredentialsToBackend.
ExtractCredentials(t, files, open, backend) ==
    LET stored == open /\ StoreCredentialsToBackend(open, backend) = "returned"
    IN IF t = "claude"
       THEN IF stored THEN ClaudeExtract(files) ELSE Rejected
       ELSE IF t = "codex"
       THEN IF stored /\ files[1] = "valid" THEN Descriptor("full")
            ELSE IF stored /\ Readable(files[2]) THEN Descriptor("full")
            ELSE Descriptor("degraded")
       ELSE IF ~stored THEN Rejected
            ELSE IF files[1] = "valid" THEN Descriptor("full")
            ELSE Descriptor("degraded")

\* (a catch block that reports 'completed')
CaughtReportsCompleted(c) ==
    IF mainWindowOpen
    THEN [c EXCEPT !.phase = "returned", !.reply = "failure",
                   !.status = Append(@, "completed")]
    ELSE [c EXCEPT !.phase = "threw", !.reply = "threw"]

\* ---- the handler's catch block: it sends status 'error' to the window and
\* returns {success: false, error}; with the window gone the send throws.
Caught(c) ==
    IF mainWindowOpen
    THEN [c EXCEPT !.phase = "returned", !.reply = "failure",
                   !.status = Append(@, "error")]
    ELSE [c EXCEPT !.phase = "threw", !.reply = "threw"]

\* ---- what follows checkAuthenticated in the handler.
\* (a handler that logs in whatever checkAuthenticated returned)
AfterAuthCheckAlwaysLogin(isAuth) == "login"

AfterAuthCheck(isAuth) == IF isAuth THEN "extract" ELSE "login"

HandlerInit ==
    /\ host \in [installed : BOOLEAN, files : [1..2 -> LocStates],
                 dir : BOOLEAN]
    /\ \A l \in (1..2) \ Candidates(tool) : host.files[l] = "absent"
    \* the credential files of Codex and Gemini lie in the tool's directory;
    \* Claude's item lies in the keychain or in the home directory
    /\ IF tool = "claude" THEN ~host.dir
       ELSE (\E l \in 1..2 : Readable(host.files[l])) => host.dir
    /\ conn = NoCall
    /\ logoutReply = NoReply

handlerFrame == <<uiVars, oauth, envVars, byTool, stream, logoutReply, tool, attemptNo, pc, attempt, child, exitCode, timers,
                  output, windows, credOnDisk, servers, activeServers,
                  graceTimers, portTaken, mainWindowOpen>>

\* The invocation has made this call.
Ran(step) == \E k \in DOMAIN conn.ran : conn.ran[k] = step

\* ---- the invocation up to its first await (checkToolInstalled).
ConnectInvoked ==
    /\ conn.phase = "idle"
    /\ conn' = IF mainWindowOpen
               THEN [conn EXCEPT !.phase = "checkInstalled",
                                 !.status = Append(@, "checking")]
               \* 'Application not initialized'
               ELSE [conn EXCEPT !.phase = "returned", !.reply = "failure"]
    /\ UNCHANGED <<host, handlerFrame>>

\* ---- checkToolInstalled returned: sendStatus('installing') and
\* installTool, or checkAuthenticated.
ConnCheckInstalled ==
    /\ conn.phase = "checkInstalled"
    /\ conn' = IF ~mainWindowOpen THEN Caught(conn)
               ELSE IF host.installed THEN [conn EXCEPT !.phase = "checkAuth"]
               ELSE [conn EXCEPT !.phase = "installing",
                                 !.status = Append(@, "installing"),
                                 !.ran = Append(@, "install")]
    /\ UNCHANGED <<host, handlerFrame>>

\* ---- installTool: the install process closed with this code.  With the
\* window gone, installTool's own sendLog throws before the spawn (the
\* handler's catch runs), or the one in the 'close' listener throws and the
\* promise is never resolved.
ConnInstall(code, spawned) ==
    /\ conn.phase = "installing"
    /\ IF mainWindowOpen
       THEN /\ spawned
            /\ IF code = "0"
               THEN /\ conn' = [conn EXCEPT !.phase = "checkAuth",
                                            !.installCode = code]
                    /\ host' = [host EXCEPT !.installed = TRUE]
               ELSE /\ conn' = [Caught(conn) EXCEPT !.installCode = code]
                    /\ UNCHANGED host
       ELSE /\ conn' = IF spawned /\ code = "0"
                       THEN [conn EXCEPT !.phase = "hung", !.installCode = code]
                       ELSE [Caught(conn) EXCEPT
                                !.installCode = IF spawned THEN code ELSE @]
            /\ UNCHANGED host
    /\ UNCHANGED handlerFrame

\* ---- checkAuthenticated returned: sendStatus('extracting') and the call of
\* extractCredentials, or sendStatus('authenticating') and the call of
\* performLogin.
ConnCheckAuthenticated(isAuth) ==
    /\ conn.phase = "checkAuth"
    /\ isAuth \in IsAuthenticated(tool, host.files)
    /\ conn' = IF ~mainWindowOpen THEN Caught(conn)
               ELSE LET next == AfterAuthCheck(isAuth) IN
                    [conn EXCEPT !.phase = next,
                                 !.auth = IF isAuth THEN "yes" ELSE "no",
                                 !.status = Append(@, IF next = "extract"
                                                      THEN "extracting"
                                                      ELSE "authenticating"),
                                 !.ran = Append(@, next)]
    /\ UNCHANGED <<host, handlerFrame>>

\* ---- performLogin resolved (sendStatus('extracting') and the call of
\* extractCredentials follow) or rejected; the CLI may have written the
\* credential to the tool's first location meanwhile.
ConnLoginSettled(ok, wrote) ==
    /\ conn.phase = "login"
    /\ host' = IF wrote
               THEN [host EXCEPT !.files[1] = "valid",
                                 !.dir = (tool # "claude")]
               ELSE host
    /\ conn' = IF ok /\ mainWindowOpen
               THEN [conn EXCEPT !.phase = "extract", !.wrote = wrote,
                                 !.login = IF ok THEN "resolved" ELSE "rejected",
                                 !.status = Append(@, "extracting"),
                                 !.ran = Append(@, "extract")]
               ELSE [Caught(conn) EXCEPT !.wrote = wrote,
                        !.login = IF ok THEN "resolved" ELSE "rejected"]
    /\ UNCHANGED handlerFrame

\* ---- extractCredentials returned or rejected; sendStatus('completed'),
\* 'tool-connected', return {success: true, credentials}.
AfterExtract(c, d) ==
    IF d.outcome = "rejected" \/ ~mainWindowOpen
    THEN Caught([c EXCEPT !.extracted = d])
    ELSE [c EXCEPT !.extracted = d, !.phase = "returned", !.reply = "success",
                   !.status = Append(@, "completed")]

ConnExtract(backend) ==
    /\ conn.phase = "extract"
    /\ conn' = [AfterExtract(conn, ExtractCredentials(tool, host.files,
                                                      mainWindowOpen, backend))
                  EXCEPT !.backend = backend,
                         !.forwarded = IF mainWindowOpen
                                       THEN TokenData(tool, host.files)
                                       ELSE "none"]
    /\ UNCHANGED <<host, handlerFrame>>

\* ---- ClaudeService.logout: runCliLogout fails when the CLI cannot be
\* spawned; removeStoredCredentials tells whether an item was deleted.
ClaudeLogout(h) ==
    LET cliSuccess == h.installed
        credentialsDeleted == Readable(h.files[1])
    IN IF ~cliSuccess
       THEN [success |-> FALSE,
             message |-> IF credentialsDeleted THEN "commandFailedButRemoved"
                         ELSE "failedToLogout"]
       ELSE [success |-> TRUE,
             message |-> IF credentialsDeleted THEN "loggedOutAndRemoved"
                         ELSE "loggedOut"]

\* ---- logoutCodexWithResult / logoutGemini: the result of `codex logout`
\* is ignored; the tool's directory is removed if it exists.
RemoveDirectory(h) ==
    IF h.dir THEN [success |-> TRUE, message |-> "loggedOut"]
    ELSE [success |-> TRUE, message |-> "nothingToRemove"]

\* ---- AuthManager.logoutTool
LogoutResult(t, h) == IF t = "claude" THEN ClaudeLogout(h) ELSE RemoveDirectory(h)

\* ---- ipcMain.handle('logout-tool'), invoked by the renderer.
LogoutInvoked ==
    /\ mainWindowOpen
    /\ logoutReply = NoReply
    /\ logoutReply' = LogoutResult(tool, host)
    /\ host' = [host EXCEPT !.files = <<"absent", "absent">>, !.dir = FALSE]
    /\ UNCHANGED <<conn, uiVars, loginVars, oauth, envVars, byTool, stream>>

\* ---- mainWindow.on('closed') while the invocation runs.
ConnWindowClosed ==
    /\ MainWindowClosed
    /\ conn.phase \notin {"returned", "threw", "hung"}

HandlerNext ==
    \/ ConnectInvoked
    \/ ConnCheckInstalled
    \/ \E code \in {"0", "1"}, spawned \in BOOLEAN : ConnInstall(code, spawned)
    \/ \E isAuth \in BOOLEAN : ConnCheckAuthenticated(isAuth)
    \/ \E ok \in BOOLEAN, wrote \in BOOLEAN : ConnLoginSettled(ok, wrote)
    \/ \E backend \in Backends : ConnExtract(backend)
    \/ ConnWindowClosed
    \/ LogoutInvoked

InitHandler == LoginIdle /\ UIIdle /\ HandlerInit /\ OAuthIdle /\ EnvIdle

SpecHandler == InitHandler /\ [][HandlerNext]_vars

\* ====================================================================
\*                          THE OAUTH WINDOW
\* ====================================================================
\* One OAuthWindow of the tool of the run.  A URL is what the handlers test
\* of it: it matches a tool-specific success pattern, a generic success
\* pattern (code=, success, authenticated), it carries a ?code= parameter,
\* it contains 'success' or 'download-complete' literally, it contains
\* 'error' or 'denied'.

\* navigation events delivered to one window
MaxNavigations == 2

UrlMatches == {"toolSuccess", "genericSuccess", "code", "successWord", "error"}

Urls(t) ==
    {u \in SUBSET UrlMatches :
        \* [?&]code= contains code=
        /\ "code" \in u => "genericSuccess" \in u
        \* 'success' matches /success/i, 'download-complete' Claude's pattern
        /\ "successWord" \in u => ("genericSuccess" \in u \/ "toolSuccess" \in u)
        \* toolSpecificSuccess.codex is empty
        /\ "toolSuccess" \in u => t # "codex"}

\* (a 'closed' handler and a close timer that forget to call resolve)
ResolveOpenForgotten(o) == o

ResolveOpen(o) ==
    IF o.promise = "pending" THEN [o EXCEPT !.promise = "resolved"] ELSE o

RejectOpen(o) ==
    IF o.promise = "pending" THEN [o EXCEPT !.promise = "rejected"] ELSE o

\* ---- the classification of handleRedirect: the rules that act on a URL.
\* The success branch does not return, so the error test follows it.
Classify(u) ==
    (IF "toolSuccess" \in u \/ "genericSuccess" \in u THEN {"success"} ELSE {})
    \cup (IF "error" \in u THEN {"error"} ELSE {})

oauthFrame == <<uiVars, loginVars, handlerVars, envVars, byTool, stream>>

\* ---- OAuthWindow.open: creates the BrowserWindow and registers the handlers.
OAuthOpen ==
    /\ oauth.window = "none"
    /\ oauth' = [oauth EXCEPT !.window = "open", !.completed = FALSE,
                              !.promise = "pending"]
    /\ UNCHANGED oauthFrame

\* ---- handleRedirect, run on will-redirect, will-navigate and did-navigate.
\* The success branch sets completed and arms the 2 s close timer
\* (sendCodeToLocalhost / redirectToLocalhost); the error branch closes the
\* window and rejects.
HandleRedirect(u) ==
    /\ oauth.window = "open"
    /\ oauth.events < MaxNavigations
    /\ oauth' =
         IF oauth.completed
         THEN [oauth EXCEPT !.events = @ + 1,
                            !.last = [url |-> u, handledAs |-> {}]]
         ELSE LET rules == Classify(u)
                  a == IF "success" \in rules
                       THEN [oauth EXCEPT !.completed = TRUE,
                                          !.handoffs = @ + 1,
                                          !.closeTimers = @ + 1]
                       ELSE oauth
                  b == IF "error" \in rules
                       THEN RejectOpen([a EXCEPT !.window = "closing"])
                       ELSE a
              IN [b EXCEPT !.events = @ + 1,
                           !.last = [url |-> u, handledAs |-> rules]]
    /\ UNCHANGED oauthFrame

\* ---- the did-navigate-in-page handler registered for Claude.
NavigateInPage(u) ==
    /\ tool = "claude"
    /\ oauth.window = "open"
    /\ oauth.events < MaxNavigations
    /\ oauth' =
         IF ~oauth.completed /\ ("successWord" \in u)
         THEN [oauth EXCEPT !.closeTimers = @ + 1, !.handoffs = @ + 1,
                            !.events = @ + 1,
                            !.last = [url |-> u, handledAs |-> {"success"}]]
         ELSE [oauth EXCEPT !.events = @ + 1,
                            !.last = [url |-> u, handledAs |-> {}]]
    /\ UNCHANGED oauthFrame

\* ---- the 2 s timer of redirectToLocalhost / sendCodeToLocalhost.
CloseTimerFires ==
    /\ oauth.closeTimers > 0
    /\ oauth' = ResolveOpen([oauth EXCEPT
                    !.closeTimers = @ - 1,
                    !.window = IF @ = "open" THEN "closing" ELSE @])
    /\ UNCHANGED oauthFrame

\* ---- authWindow.on('closed'): after close(), or the user closed it.
OAuthWindowClosed ==
    /\ oauth.window \in {"open", "closing"}
    /\ oauth' = ResolveOpen([oauth EXCEPT !.window = "closed"])
    /\ UNCHANGED oauthFrame

WindowNext ==
    \/ OAuthOpen
    \/ \E u \in SUBSET UrlMatches : u \in Urls(tool) /\ HandleRedirect(u)
    \/ \E u \in SUBSET UrlMatches : u \in Urls(tool) /\ NavigateInPage(u)
    \/ CloseTimerFires
    \/ OAuthWindowClosed

InitWindow == LoginIdle /\ UIIdle /\ HandlerIdle /\ OAuthIdle /\ EnvIdle

SpecWindow == InitWindow /\ [][WindowNext]_vars

\* ====================================================================
\*                        THE SPAWN ENVIRONMENT
\* ====================================================================
\* EnvironmentManager on a POSIX host: getSpawnEnv() applied to a process
\* environment.

\* getEnhancedPath's additionalPaths after filter(p => p), with ~ for
\* os.homedir()
AdditionalPaths ==
    <<"/usr/local/bin", "/usr/bin", "/opt/homebrew/bin", "/opt/homebrew/sbin",
      "~/.nvm/versions/node/v22.17.0/bin", "~/.nvm/versions/node/v20.18.0/bin",
      "~/.volta/bin", "~/.fnm/aliases/default/bin">>

\* [...new Set(list)]: first occurrences, in order
RECURSIVE Dedupe(_)

Dedupe(list) ==
    IF list = <<>> THEN <<>>
    ELSE LET front == Dedupe(SubSeq(list, 1, Len(list) - 1))
             x == list[Len(list)]
         IN IF \E k \in DOMAIN front : front[k] = x THEN front
            ELSE Append(front, x)

\* ---- getEnhancedPath: an unset PATH is '' and splits into one empty entry
GetEnhancedPath(env) ==
    Dedupe(AdditionalPaths \o (IF env.path = <<>> THEN <<"">> ELSE env.path))

\* (a sanitizer that only sets PATH)
SanitizeOnlyPath(env, enhancedPath) ==
    [vars |-> env.vars,
     path |-> IF enhancedPath # <<>> THEN enhancedPath ELSE env.path]

\* ---- sanitizeEnvForOAuth(enhancedPath) on a copy of the environment
SanitizeEnvForOAuth(env, enhancedPath) ==
    [vars |-> [n \in EnvNames |->
                  IF n \in UNSET_VARS THEN ""
                  ELSE IF n = "BROWSER" /\ env.vars[n] = "www-browser" THEN ""
                  ELSE env.vars[n]],
     path |-> IF enhancedPath # <<>> THEN enhancedPath ELSE GetEnhancedPath(env)]

\* ---- getSpawnEnv
GetSpawnEnv(env) ==
    LET e == SanitizeEnvForOAuth(env, GetEnhancedPath(env))
    IN [vars |-> [e.vars EXCEPT !["TERM"] = "xterm-256color",
                                !["FORCE_COLOR"] = "1"],
        path |-> e.path, prepared |-> TRUE]

EnvInit ==
    /\ \E denied \in [UNSET_VARS -> {"", "1"}],
          browser \in {"", "www-browser", "firefox"},
          term \in {"", "dumb"},
          color \in {"", "0"},
          path \in {<<>>, <<"/usr/bin", "/home/u/bin">>} :
            procEnv = [vars |-> [n \in EnvNames |->
                                   IF n \in UNSET_VARS THEN denied[n]
                                   ELSE IF n = "BROWSER" THEN browser
                                   ELSE IF n = "TERM" THEN term
                                   ELSE IF n = "FORCE_COLOR" THEN color
                                   ELSE "/home/u"],
                       path |-> path]
    /\ spawnEnv = [vars |-> [n \in EnvNames |-> ""], path |-> <<>>,
                   prepared |-> FALSE]

\* ---- a service calls EnvironmentManager.getSpawnEnv() before a spawn
PrepareEnv ==
    /\ ~spawnEnv.prepared
    /\ spawnEnv' = GetSpawnEnv(procEnv)
    /\ procEnv' = procEnv
    /\ UNCHANGED <<uiVars, loginVars, handlerVars, oauth, byTool, stream>>

EnvNext == PrepareEnv

InitEnv ==
    /\ LoginIdle /\ tool = "codex" /\ UIIdle /\ HandlerIdle /\ OAuthIdle
    /\ EnvInit /\ ToolsIdle /\ StreamIdle

SpecEnv == InitEnv /\ [][EnvNext]_vars

\* ====================================================================
\*                     THE THREE TOOLS SIDE BY SIDE
\* ====================================================================
\* An attempt of each tool, as far as it touches what is keyed by tool:
\* RendererApp.toolStates, CallbackServer.activeServers and the listening
\* ports, the attempt's child and timers.

\* (one port for all tools)
PortShared(t) == 1455

\* CLI_CONFIGS[t].port
Port(t) == IF t = "codex" THEN 1455 ELSE IF t = "gemini" THEN 1457 ELSE 1459

\* The configured ports some server listens on.
PortsInUse == {Port(u) : u \in {v \in Tools : "configured" \in byTool[v].ports}}

toolsFrame == <<uiVars, loginVars, handlerVars, oauth, envVars, stream>>

\* ---- RendererApp.connectTool(t) up to the invoke
RunConnect(t) ==
    /\ byTool[t].phase = "idle"
    /\ ~(byTool[t].connected \/ byTool[t].inProgress)
    /\ byTool' = [byTool EXCEPT ![t].inProgress = TRUE, ![t].phase = "setup"]
    /\ UNCHANGED toolsFrame

\* ---- setupCallbackServer(t) (Gemini, Claude): listen on the configured
\* port, on EADDRINUSE on a random one; activeServers.set(t, server)
RunSetupServer(t) ==
    /\ byTool[t].phase = "setup"
    /\ byTool' = IF t = "codex"
                 THEN [byTool EXCEPT ![t].phase = "spawn"]
                 ELSE LET kind == IF Port(t) \in PortsInUse THEN "ephemeral"
                                  ELSE "configured"
                      IN [byTool EXCEPT ![t].phase = "spawn", ![t].entry = kind,
                                        ![t].ports = @ \cup {kind}]
    /\ UNCHANGED toolsFrame

\* ---- the login child is spawned, the attempt's timers armed
RunSpawn(t) ==
    /\ byTool[t].phase = "spawn"
    /\ byTool' = [byTool EXCEPT ![t].phase = "running", ![t].child = "running",
                                ![t].timers = TRUE]
    /\ UNCHANGED toolsFrame

\* ---- handleCallback's timer: activeServers.get(t) is closed and deleted
RunCallback(t) ==
    /\ byTool[t].entry # "none"
    /\ byTool' = [byTool EXCEPT ![t].ports = @ \ {byTool[t].entry},
                                ![t].entry = "none"]
    /\ UNCHANGED toolsFrame

\* ---- the attempt settles and connectTool(t) continues after its await;
\* the settling handler has cleared the timers and killed the child, or not
RunSettle(t, ok, tidy) ==
    /\ byTool[t].phase = "running"
    /\ byTool' = [byTool EXCEPT ![t].phase = "idle", ![t].inProgress = FALSE,
                                ![t].connected = ok,
                                ![t].child = IF tidy THEN "killed" ELSE @,
                                ![t].timers = IF tidy THEN FALSE ELSE @]
    /\ UNCHANGED toolsFrame

RunStep(t) ==
    \/ RunConnect(t)
    \/ RunSetupServer(t)
    \/ RunSpawn(t)
    \/ RunCallback(t)
    \/ \E ok \in BOOLEAN, tidy \in BOOLEAN : RunSettle(t, ok, tidy)

ToolsNext == \E t \in Tools : RunStep(t)

InitTools ==
    LoginIdle /\ tool = "codex" /\ UIIdle /\ HandlerIdle /\ OAuthIdle /\ EnvIdle

SpecTools == InitTools /\ [][ToolsNext]_vars

\* ====================================================================
\*                      THE CHILD'S STDOUT IN CHUNKS
\* ====================================================================
\* The stdout 'data' handlers of the three logins, fed one output text in
\* chunks.  A text is a sequence of pieces: the two halves of the phrase the
\* handler looks for, and a line break.

\* pieces in a text
MaxPieces == 3

\* The phrase that settles the attempt from the stdout handler: 'LOGIN_FAILED'
\* for the expect scripts, a success phrase of checkForAuthSuccess for Gemini.
Marker(t) ==
    IF t = "gemini" THEN <<"login ", "successful">> ELSE <<"LOGIN_", "FAILED">>

\* reject(new Error('Login failed: ...')) / onAuthComplete() -> resolve()
OutcomeOn(t) == IF t = "gemini" THEN "resolved" ELSE "rejected:failed"

\* String.prototype.includes
Includes(text, m) ==
    \E i \in 1..(Len(text) - Len(m) + 1) : SubSeq(text, i, i + Len(m) - 1) = m

StreamInit ==
    \E text \in UNION {[1..n -> {Marker(tool)[1], Marker(tool)[2], "\n"}] :
                          n \in 1..MaxPieces} :
        stream = [rest |-> text, output |-> <<>>, outcome |-> "pending"]

\* ---- stdout 'data' with the next n pieces: output += text, then the tests,
\* which are text.includes(marker) on the chunk the handler was called with
Deliver(n) ==
    /\ n \in 1..Len(stream.rest)
    /\ LET chunk == SubSeq(stream.rest, 1, n) IN
         stream' = [rest |-> SubSeq(stream.rest, n + 1, Len(stream.rest)),
                    output |-> stream.output \o chunk,
                    outcome |-> IF /\ stream.outcome = "pending"
                                   /\ Includes(chunk, Marker(tool))
                                THEN OutcomeOn(tool) ELSE stream.outcome]
    /\ UNCHANGED <<uiVars, loginVars, handlerVars, oauth, envVars, byTool>>

ChunksNext == \E n \in 1..MaxPieces : Deliver(n)

InitChunks ==
    /\ LoginIdle /\ UIIdle /\ HandlerIdle /\ OAuthIdle /\ EnvAtRest /\ ToolsIdle
    /\ StreamInit

SpecChunks == InitChunks /\ [][ChunksNext]_vars

\* --------------------------------------------------------------------
\* Claims about the UI group (checked under SpecUI)
\* --------------------------------------------------------------------

\* C1: a connectTool call made while the tool's state is inProgress or
\* connected is a no-op: it changes neither the renderer's state nor the
\* environment and issues no connect-tool request (so no handler of the main
\* process runs for it, no process is spawned and no listener opened).
ConnectWhileBusyIsNoOp ==
    [][\A t \in Tools :
          ((toolStates[t].connected \/ toolStates[t].inProgress) /\ ConnectTool(t))
              => UNCHANGED <<toolStates, requests, successMsgs, logoutCalls,
                             initAuth, installed, credential>>]_vars

\* A connect click was just ignored while a connect-tool request for the tool
\* was inside performLogin.
ConnectWhileBusyWitness ==
    /\ lastEvent = "connectTool:return"
    /\ toolStates[tool].inProgress
    /\ LoginsInFlight(tool) # {}

\* C2: at most one login attempt (performLogin call) per tool is in flight.
OneLoginAttemptPerTool ==
    \A t \in Tools : Cardinality(LoginsInFlight(t)) <= 1

\* C3: no tool has inProgress and connected both true.
NeverInProgressAndConnected ==
    \A t \in Tools : ~(toolStates[t].inProgress /\ toolStates[t].connected)

\* --------------------------------------------------------------------
\* Claims about the login attempts and the callback server
\* --------------------------------------------------------------------

\* C4: in every login attempt (Gemini, Codex, Claude) resolve or reject is
\* invoked at most once; the handlers that fire after the first are
\* suppressed by the resolved flag.
SettledAtMostOnce == attempt.settleCalls <= 1

\* A Gemini attempt resolved by a success phrase whose child then closed: the
\* 'close' handler ran after the settlement and did not settle again.
SettledAtMostOnceWitness ==
    /\ tool = "gemini"
    /\ attempt.by = "stdout"
    /\ attempt.outcome = "resolved"
    /\ child = "closed"
    /\ attempt.settleCalls = 1

\* C5: every started attempt eventually settles, at the latest when its
\* wall-clock timeout elapses.  As a state property: an unsettled attempt is
\* still on its way to arming the timeout, or has the timeout armed.
UnsettledAttemptHasTimeoutArmed ==
    attempt.outcome = "pending" =>
        \/ pc \in {"serverSetup", "prepare"}
        \/ timers["timeout"] = 1

\* C6: once an attempt has resolved or rejected, none of its timers or
\* intervals is armed and its child process is not running.
SettledAttemptHoldsNothing ==
    attempt.outcome \in SettledOutcomes =>
        /\ \A n \in TimerNames : timers[n] = 0
        /\ child # "running"

\* C7: when an attempt has completed by success or by timeout, the callback
\* listener created for it is closed and is not in the active-server map.
ListenerGoneWhenAttemptCompletes ==
    (attempt.outcome \in {"resolved", "rejected:timeout"} /\ Len(servers) > 0) =>
        /\ ~servers[Len(servers)].listening
        /\ activeServers # Len(servers)

\* C8: at every moment at most one callback server of the tool is listening.
AtMostOneListeningServer == Cardinality(Listening) <= 1

\* C9: when the attempt, its process spawned, was rejected by its timeout
\* without a completion signal having arrived, the child is not running and
\* no callback server occupies the tool's configured port.
TimeoutReleasesChildAndPort ==
    ( /\ attempt.outcome = "rejected:timeout"
      /\ child \in {"running", "killed", "closed"}
      /\ output \cap {"success", "LOGIN_SUCCESS"} = {}
      /\ ~credOnDisk ) =>
        /\ child # "running"
        /\ \A s \in Listening : servers[s].port # "configured"

NoEffectAfterSettlement == ~attempt.late

\* C12: with the main window open, a denial / failure phrase or marker
\* received after an authentication URL by an attempt that has not settled
\* rejects the attempt, for every tool.
DenialAfterUrlRejects ==
    [][( /\ attempt.outcome = "pending"
         /\ mainWindowOpen
         /\ output \cap {"url", "AUTH_URL"} # {} ) =>
          /\ \A chunk \in SUBSET GeminiMarkers :
                (chunk = {"denied"} /\ GeminiStdout(chunk))
                    => attempt'.outcome = "rejected:failed"
          /\ \A chunk \in SUBSET ExpectMarkers :
                (chunk = {"LOGIN_FAILED"} /\ (CodexStdout(chunk) \/ ClaudeStdout(chunk)))
                    => attempt'.outcome = "rejected:failed"]_vars

\* C13: over the requests a callback server answers during an attempt, it
\* signals completion ('auth-completed', show-success-screen) at most once.
CallbackSignalsOnce == \A s \in DOMAIN servers : servers[s].signals <= 1

\* --------------------------------------------------------------------
\* Claims about the connect-tool handler (checked under SpecHandler)
\* --------------------------------------------------------------------

\* C14: for every tool, extractCredentials called while no candidate
\* location holds a readable, parseable credential returns a descriptor
\* whose status is 'authenticated'; it never rejects.
ExtractWithoutCredentialReturns ==
    (/\ conn.extracted # NoDescriptor
     /\ \A l \in Candidates(tool) : host.files[l] # "valid")
        => /\ conn.extracted.outcome = "returned"
           /\ conn.extracted.status = "authenticated"

\* C15: for every tool, logout-tool invoked while no credential exists
\* returns success with a 'nothing to remove' message, whether or not the
\* tool's own logout command can be run.
LogoutWithoutCredentialSucceeds ==
    [][((\A l \in Candidates(tool) : ~Readable(host.files[l])) /\ LogoutInvoked)
          => (logoutReply'.success /\ logoutReply'.message = "nothingToRemove")]_vars

\* C16: when checkAuthenticated answers true at connect time, the handler
\* never calls performLogin (no login process is spawned, no callback
\* listener opened): its next call is extractCredentials.
AuthenticatedSkipsLogin ==
    conn.auth = "yes"
        => /\ ~Ran("login")
           /\ conn.ran[Len(conn.ran)] = "extract"
           /\ attemptNo = 0 /\ child = "none" /\ servers = <<>>

AuthenticatedSkipsLoginWitness ==
    conn.auth = "yes" /\ conn.reply = "success"

HandlerNeverThrows == conn.phase \notin {"threw", "hung"}

\* --------------------------------------------------------------------
\* Claims about teardown and the embedded window
\* --------------------------------------------------------------------

\* C19: once the main window is closed, an attempt that was in flight holds
\* no armed timer or interval, no running child, no listening server and no
\* open embedded window (so none of its callbacks can run afterwards).
WindowClosedReleasesAttempt ==
    (~mainWindowOpen /\ attempt.outcome = "pending")
        => /\ timers = NoTimers
           /\ child # "running"
           /\ windows = 0
           /\ Listening = {}

\* C20: each navigation event is classified by one rule, first match wins
\* (tool-specific success, generic success, error): a URL that matches a
\* success pattern is handled as success only.
UrlHandledBySuccessOnly ==
    "success" \in oauth.last.handledAs => oauth.last.handledAs = {"success"}

\* C21: an embedded window hands off to the local callback server (loads
\* the localhost callback URL) at most once per attempt; after it recorded
\* completion every navigation event is ignored.
HandoffAtMostOnce == oauth.handoffs <= 1

\* C22: when the embedded window meets an error URL (open() rejects with
\* 'Authentication was denied or failed'), the login attempt that opened it
\* rejects.
WindowErrorRejectsAttempt ==
    [][(attempt.outcome = "pending" /\ (GeminiWindowFailed \/ ClaudeWindowFailed))
          => attempt'.outcome \in Rejections]_vars

\* C23: the 'closed' event of the embedded window, whatever state the window
\* is in (before any navigation, after a hand-off, after an error), leaves
\* the open() promise settled; a promise still pending then is resolved.
WindowClosedSettlesOpen ==
    [][OAuthWindowClosed
          => /\ oauth'.promise # "pending"
             /\ oauth.promise = "pending" => oauth'.promise = "resolved"]_vars

\* the user closed a window that had seen no navigation event
WindowClosedSettlesOpenWitness ==
    /\ oauth.window = "closed" /\ oauth.promise = "resolved"
    /\ oauth.events = 0 /\ oauth.handoffs = 0

\* C24: installTool resolves exactly when the install command exits with
\* code 0 (the handler goes on to checkAuthenticated); on another exit code
\* it fails with an error carrying that code (the handler's catch runs).
InstallResolvesIffExitZero ==
    [][\A code \in {"0", "1"} :
          ConnInstall(code, TRUE)
             => IF code = "0" THEN conn'.phase = "checkAuth"
                ELSE conn'.phase \in {"returned", "threw"}
                     /\ conn'.installCode = code]_vars

\* --------------------------------------------------------------------
\* Claims about the spawn environment (checked under SpecEnv)
\* --------------------------------------------------------------------

\* C25 as stated: the prepared environment holds none of the denylisted
\* variables, keeps every other variable unchanged apart from PATH, TERM and
\* FORCE_COLOR, and the process's own environment is not modified.
PreparedEnvKeepsOthers ==
    [][PrepareEnv
          => /\ \A n \in UNSET_VARS : spawnEnv'.vars[n] = ""
             /\ \A n \in EnvNames \ (UNSET_VARS \cup {"TERM", "FORCE_COLOR"}) :
                    spawnEnv'.vars[n] = procEnv.vars[n]
             /\ procEnv' = procEnv]_vars

\* C25, amended: as above, except that BROWSER is also removed when its
\* value is 'www-browser'; PATH is the deduplicated list of the well-known
\* directories followed by the current PATH, TERM and FORCE_COLOR are fixed.
PreparedEnvKeepsOthersButBrowserShim ==
    [][PrepareEnv
          => /\ \A n \in UNSET_VARS : spawnEnv'.vars[n] = ""
             /\ \A n \in EnvNames \ (UNSET_VARS \cup {"TERM", "FORCE_COLOR"}) :
                    spawnEnv'.vars[n] =
                       IF n = "BROWSER" /\ procEnv.vars[n] = "www-browser"
                       THEN "" ELSE procEnv.vars[n]
             /\ spawnEnv'.vars["TERM"] = "xterm-256color"
             /\ spawnEnv'.vars["FORCE_COLOR"] = "1"
             /\ \A k \in DOMAIN AdditionalPaths : spawnEnv'.path[k] = AdditionalPaths[k]
             /\ \A k \in DOMAIN procEnv.path :
                    \E j \in DOMAIN spawnEnv'.path : spawnEnv'.path[j] = procEnv.path[k]
             /\ procEnv' = procEnv]_vars

\* an environment with a denylisted variable and the browser shim, prepared
PreparedEnvWitness ==
    /\ spawnEnv.prepared
    /\ procEnv.vars["CI"] = "1" /\ procEnv.vars["OPENAI_API_KEY"] = "1"
    /\ procEnv.vars["BROWSER"] = "www-browser"
    /\ procEnv.path # <<>>

\* C26: for every tool, checkAuthenticated answers true exactly when a
\* credential is present at one of the candidate locations that
\* extractCredentials probes.
CheckAuthenticatedIffCredentialPresent ==
    [][\A isAuth \in BOOLEAN :
          (mainWindowOpen /\ ConnCheckAuthenticated(isAuth))
             => (isAuth <=> \E l \in Candidates(tool) : Readable(host.files[l]))]_vars

\* C27: a failure of the remote token-storage call (error response, network
\* error, timeout) changes nothing: extraction returns the descriptor, and
\* the handler the reply, that they give when the call succeeds.
BackendFailureChangesNothing ==
    [][\A backend \in Backends :
          ConnExtract(backend)
             => conn' = [AfterExtract(conn, ExtractCredentials(tool, host.files,
                                              mainWindowOpen, "stored"))
                           EXCEPT !.backend = backend,
                                  !.forwarded = conn'.forwarded]]_vars

BackendFailureWitness ==
    /\ conn.backend \in Backends \ {"stored"}
    /\ conn.reply = "success"
    /\ conn.extracted.detail = "full"

\* C28: whatever storeCredentialsToBackend forwards is redacted or
\* metadata-only: no secret value read from a credential location is in it.
ForwardedPayloadHoldsNoSecret == conn.forwarded # "secret"

\* --------------------------------------------------------------------
\* Claims about the tools side by side (checked under SpecTools)
\* --------------------------------------------------------------------

SpawnFailureRejects ==
    (child \in {"spawnError", "errored"} /\ attempt.outcome \in SettledOutcomes)
        => attempt.outcome = "rejected:spawn"

\* --------------------------------------------------------------------
\* Claims about the exit of the login child (checked under SpecLogin)
\* --------------------------------------------------------------------

\* C31: when the handler of the child's exit settles a pending attempt on a
\* non-zero exit code, and neither a success signal was observed nor a
\* credential is present, it rejects with the exit-code error; so it resolves
\* on a non-zero exit only after a success signal or with a credential.
NonZeroExitRejects ==
    [][(/\ attempt.outcome = "pending"
        /\ attempt'.outcome \in SettledOutcomes
        /\ attempt'.by \in {"close", "closeCheck"}
        /\ exitCode' # "0"
        /\ ~attempt.authCompleted
        /\ output \cap {"success", "LOGIN_SUCCESS"} = {}
        /\ ~credOnDisk)
           => attempt'.outcome = "rejected:exit"]_vars

\* --------------------------------------------------------------------
\* Claims about the order of a connect's phases (checked under SpecHandler)
\* --------------------------------------------------------------------

\* C32: within one connect the calls made are in the order install, login,
\* extract (each at most once, after the check that precedes it), the status
\* updates follow the order checking, installing, authenticating, extracting,
\* completed; 'completed' is sent only after extractCredentials returned, and
\* 'completed' or 'error' is the last status update of the connect.
StatusFollowsPhases ==
    LET rank(x) == CASE x \in {"checking"} -> 1
                     [] x \in {"installing", "install"} -> 2
                     [] x \in {"authenticating", "login"} -> 3
                     [] x \in {"extracting", "extract"} -> 4
                     [] OTHER -> 5
        Ordered(q) == \A i \in DOMAIN q, j \in DOMAIN q :
                          i < j => rank(q[i]) < rank(q[j])
        st == conn.status
    IN /\ Ordered(conn.ran)
       /\ Ordered(st)
       /\ \A i \in DOMAIN st : st[i] \in {"completed", "error"} => i = Len(st)
       /\ \A i \in DOMAIN st :
             st[i] = "completed" => /\ conn.extracted.outcome = "returned"
                                    /\ Ran("extract")
                                    /\ i > 1 /\ st[i - 1] = "extracting"
       /\ \A i \in DOMAIN st :
             /\ st[i] = "installing" => Ran("install")
             /\ st[i] = "authenticating" => Ran("login")
             /\ st[i] = "extracting" => Ran("extract")

\* a connect that installed, logged in, extracted and sent 'completed'
StatusFollowsPhasesWitness ==
    conn.status = <<"checking", "installing", "authenticating", "extracting",
                    "completed">>

\* --------------------------------------------------------------------
\* Claims about a missing expect (checked under SpecLogin)
\* --------------------------------------------------------------------

\* C33: the step that rejects an attempt because expect is missing has
\* spawned no child and armed no timer, and leaves the tool's credential as
\* it was.
PrerequisiteMissingChangesNothing ==
    [][(attempt.outcome = "pending" /\ attempt'.outcome = "rejected:prerequisite")
          => /\ child' = "none"
             /\ timers' = NoTimers
             /\ credOnDisk' = credOnDisk]_vars

\* --------------------------------------------------------------------
\* Claims about the hand-off of the authentication URL (checked under SpecLogin)
\* --------------------------------------------------------------------

\* C34: within one attempt an embedded window is opened for the first output
\* that holds a URL only: no window is opened by output that follows a URL.
UrlHandedOffOnce ==
    [][windows' > windows => output \cap {"url", "AUTH_URL"} = {}]_vars

\* --------------------------------------------------------------------
\* Claims about the renderer after a failed connect (checked under SpecUI)
\* --------------------------------------------------------------------

\* C35: when connectTool continues after a connect request that failed, the
\* tool is left neither inProgress nor connected (so that Retry passes the
\* guard of connectTool again).
FailedConnectLeavesToolIdle ==
    [][\A i \in ReqIds :
          (requests[i].phase = "replyErr" /\ ConnectReturn(i))
              => /\ ~toolStates'[requests[i].tool].inProgress
                 /\ ~toolStates'[requests[i].tool].connected]_vars

\* C38: a tool becomes connected only when connectTool continues after a
\* successful connect request or when checkInitialAuth finds the tool
\* authenticated.
ConnectedOnlyBySuccess ==
    [][\A t \in Tools :
          (~toolStates[t].connected /\ toolStates'[t].connected)
              => \/ \E i \in ReqIds : /\ requests[i].tool = t
                                       /\ requests[i].phase = "replyOk"
                                       /\ ConnectReturn(i)
                 \/ \E k \in InitAuthCalls : /\ credential[t]
                                              /\ InitAuthCheckAuthenticated(k)]_vars

\* --------------------------------------------------------------------
\* Claims about the port the embedded window targets (checked under SpecLogin)
\* --------------------------------------------------------------------

\* C36: while an embedded window of the attempt is open (so that it can
\* forward a code or success redirect to the local callback server), the port
\* it targets is the one the attempt's callback server listens on, also when
\* that server fell back to an OS-assigned port.
WindowTargetsAttemptPort ==
    (windows > 0 /\ servers # <<>>)
        => servers[Len(servers)].port = CallbackPort

\* --------------------------------------------------------------------
\* Claims about the shutdown after a callback (checked under SpecServer)
\* --------------------------------------------------------------------

\* C37: the shutdown scheduled by a callback request closes only a listener
\* that has received a callback request, and the entry its close callback
\* removes from the map is that of a closed listener: a listener created by
\* a later attempt is neither closed nor unregistered by it.
GraceShutdownHitsOwnListener ==
    [][mainWindowOpen' =>
          /\ \A s \in DOMAIN servers :
                (servers[s].listening /\ ~servers'[s].listening)
                    => servers[s].signals > 0
          /\ (activeServers # 0 /\ activeServers' = 0)
                => ~servers[activeServers].listening]_vars

\* --------------------------------------------------------------------
\* Claims about what resolves an attempt (checked under SpecLogin)
\* --------------------------------------------------------------------

\* C39: the step that resolves an attempt has a success signal at hand: a
\* success phrase or marker in the output, a success redirect in the embedded
\* window, a credential at a candidate location or a zero exit code.  The
\* embedded window being closed is not one.
ResolvedOnlyOnSuccessSignal ==
    [][(attempt.outcome = "pending" /\ attempt'.outcome = "resolved")
          => \/ output' \cap {"success", "LOGIN_SUCCESS"} # {}
             \/ attempt'.by = "window"
             \/ credOnDisk
             \/ exitCode' = "0"]_vars

\* --------------------------------------------------------------------
\* Claims about the chunks of the child's output (checked under SpecChunks)
\* --------------------------------------------------------------------

\* C40: once a text has been delivered, what the stdout handler did to the
\* attempt is what the delivery of the whole text in one chunk does: it
\* depends on the text only, not on the chunk boundaries.
OutcomeIndependentOfChunks ==
    (stream.rest = <<>> /\ stream.output # <<>>)
        => stream.outcome = IF Includes(stream.output, Marker(tool))
                            THEN OutcomeOn(tool) ELSE "pending"
====
